---- MODULE Spec2Model ----
(***************************************************************************)
(* State-machine model of the hybrid-search service: the workflow          *)
(* orchestrator (graph executor and manual sequential executor), the       *)
(* identity/session service, the chat service and the HTTP search          *)
(* handlers.                                                               *)
(*                                                                         *)
(* Abstractions used throughout:                                           *)
(*   - scores are integers in hundredths (0.3 is 30, 0.475 is 47);         *)
(*   - a text is represented by its length where only the length is read;  *)
(*   - step_times is the set of its keys (elapsed seconds are measured     *)
(*     values), and a sum over it is the number of entries (one tick each);*)
(*   - a Python dict is a function on its key set, {} the empty function.  *)
(***************************************************************************)
EXTENDS Integers, Sequences, FiniteSets, TLC

EmptyDict == [k \in {} |-> 0]

\* dict.get(k, default)
Get(d, k, default) == IF k \in DOMAIN d THEN d[k] ELSE default

\* d[k] = v on a dict
Put(d, k, v) == [x \in (DOMAIN d) \cup {k} |-> IF x = k THEN v ELSE d[x]]

\* A dict without one key.
Without(r, k) == [f \in (DOMAIN r) \ {k} |-> r[f]]

(***************************************************************************)
(* State                                                                   *)
(***************************************************************************)

\* The workflow orchestrators.
VARIABLES
  app,          \* app[o]: the compiled graph of orchestrator o exists
  pc,           \* pc[o]: "idle", the node about to run, "route", "done"
  executor,     \* executor[o]: "none", "langgraph", "fallback"
  state,        \* state[o]: the pipeline state record of the request
  attempted,    \* attempted[o]: sequence of <<executor, node>> run so far
  decisions,    \* decisions[o]: sequence of _should_retry_answer results
  result,       \* result[o]: the record run() returned, or EmptyDict
  raising,      \* the set of nodes whose call raises (same for both)
  verdicts,     \* verdicts.first / verdicts.retry: what the validator concludes
  late,         \* a raising node raises after (TRUE) or before its writes
  hits,         \* number of hits the retriever finds
  context_len   \* length of the processed context built from the hits

wfvars == <<app, pc, executor, state, attempted, decisions, result,
            raising, verdicts, late, hits, context_len>>

\* The identity and session service.
VARIABLES
  users,          \* rows of table users
  user_sessions,  \* rows of table user_sessions
  redis,          \* the session cache: token |-> entry (key session:<token>)
  now,            \* datetime.utcnow() in whole seconds
  ticks,          \* how often the clock advanced
  req,            \* req[c]: the request client c has in flight
  resp,           \* resp[c]: the last response client c received
  sent,           \* number of requests sent so far
  issued,         \* tokens returned to clients by successful logins
  logged_out,     \* tokens for which logout_user has completed
  user_id_seq,    \* serial of users.id
  session_id_seq  \* serial of user_sessions.id

authvars == <<users, user_sessions, redis, now, ticks, req, resp, sent,
              issued, logged_out, user_id_seq, session_id_seq>>

\* The chat service and the search routes.
VARIABLES
  chat_sessions,        \* rows of table chat_sessions
  chat_messages,        \* rows of table chat_messages
  chat_session_id_seq,  \* serial of chat_sessions.id
  chat_message_id_seq,  \* serial of chat_messages.id
  message_log,          \* the successful add_message calls, in call order
  listing,              \* the last list_messages call and what it returned
  workflow_instance,    \* server.workflow_instance: "ready", "incomplete", "none"
  searches,             \* number of search requests served
  last_search           \* the last search request and what the handler did

chatvars == <<chat_sessions, chat_messages, chat_session_id_seq,
              chat_message_id_seq, message_log, listing, workflow_instance,
              searches, last_search>>

\* The context processor node called on its own.
VARIABLES
  cp_env,        \* optional libraries present, whether they raise, the budget
  cp_state,      \* the pipeline state the node is called on
  cp_pc,         \* "ready" before ContextProcessor.__call__, "done" after
  fallback_ret   \* what a direct _fallback_context_processing call returned

ctxvars == <<cp_env, cp_state, cp_pc, fallback_ret>>

\* The retriever's multi-stage search called on its own.
VARIABLES
  rr_in,   \* the two engine result lists and the requested size
  rr_out   \* which function was applied, and what it returned

rrvars == <<rr_in, rr_out>>

\* The coordinator node called on its own.
VARIABLES
  co_in,     \* the pipeline state the coordinator was handed
  co_state,  \* the pipeline state as the coordinator leaves it
  co_pc      \* "ready" before CoordinatorNode.__call__, "done" after

covars == <<co_in, co_state, co_pc>>

\* The quality validator node called on its own.
VARIABLES
  qv_in,     \* the pipeline state the validator was handed
  qv_state,  \* the pipeline state as the validator leaves it
  qv_pc      \* "ready" before QualityValidatorNode.__call__, "done" after

qvvars == <<qv_in, qv_state, qv_pc>>

\* The server's startup (lifespan) and its health probe.
VARIABLES
  boot_env,  \* which of the startup steps fail in this process
  boot_pc,   \* the step lifespan() is about to take, then "serving"
  boot       \* what startup has set up so far, and the last health reply

bootvars == <<boot_env, boot_pc, boot>>

\* The evaluation harness: one HybridSearcher.search call.
VARIABLES
  hs_in,   \* the index (dense and BM25 score of each document) and arguments
  hs_out   \* the two candidate lists the call obtained, and what it returned

hsvars == <<hs_in, hs_out>>

\* The evaluation harness: one metric computation.
VARIABLES
  met_in,   \* qrels, results and cutoff
  met_out   \* which metric was computed, and its value

metvars == <<met_in, met_out>>

\* The evaluation harness: one BM25 model.
VARIABLES
  bm_in,   \* the tokenized corpus and the tokenized query
  bm25,    \* the BM25 object's fields
  bm_out   \* what get_scores returned

bmvars == <<bm_in, bm25, bm_out>>

\* The serialization normalizer applied to one value.
VARIABLES
  cv_in,   \* the value handed to convert_numpy_values
  cv_out   \* how often it was applied, and the results of the applications

cvvars == <<cv_in, cv_out>>

\* One search request followed from the endpoint to the retriever.
VARIABLES
  pl_in,     \* the request's optional fields and what the index returns
  pl_state,  \* the pipeline state's search_method, num_results, results
  pl_pc      \* "request", "coordinator", "retriever" or "done"

plvars == <<pl_in, pl_state, pl_pc>>

\* The schema migration run at startup.
VARIABLES
  mg_in,   \* the schema found at startup and how the environment behaves
  mg_db,   \* the schema: the tables present and the recorded version
  mg_pc,   \* "start", "raised" (the upgrade raised) or "done"
  mg_log   \* what the run did: whether it stamped, whether it fell back

mgvars == <<mg_in, mg_db, mg_pc, mg_log>>

\* One run of the evaluation harness: load, index, evaluate.
VARIABLES
  er_in,   \* the collection, the cache and the sources as the run finds them
  er,      \* the data loader's fields, the index sizes and the ranked lists
  er_pc    \* "start", "loaded", "indexed" or "evaluated"

ervars == <<er_in, er, er_pc>>

\* Search requests served concurrently, step by step.
VARIABLES
  sq_store,     \* the chat tables and serials the concurrent handlers share
  sq_workflow,  \* server.workflow_instance: "ready", "incomplete", "none"
  sq_req        \* sq_req[r]: where handler r stands and what it did

sqvars == <<sq_store, sq_workflow, sq_req>>

vars == <<wfvars, authvars, chatvars, ctxvars, rrvars, covars, qvvars,
          bootvars, hsvars, metvars, bmvars, cvvars, plvars, mgvars, ervars,
          sqvars>>

\* What the actions of one part leave alone.
NotWorkflow == <<authvars, chatvars, ctxvars, rrvars, covars, qvvars,
                 bootvars, hsvars, metvars, bmvars, cvvars, plvars, mgvars,
                 ervars, sqvars>>
NotAuth == <<wfvars, chatvars, ctxvars, rrvars, covars, qvvars, bootvars,
             hsvars, metvars, bmvars, cvvars, plvars, mgvars, ervars, sqvars>>
NotChat == <<wfvars, authvars, ctxvars, rrvars, covars, qvvars, bootvars,
             hsvars, metvars, bmvars, cvvars, plvars, mgvars, ervars, sqvars>>
NotContext == <<wfvars, authvars, chatvars, rrvars, covars, qvvars,
                bootvars, hsvars, metvars, bmvars, cvvars, plvars, mgvars,
                ervars, sqvars>>
NotRerank == <<wfvars, authvars, chatvars, ctxvars, covars, qvvars,
               bootvars, hsvars, metvars, bmvars, cvvars, plvars, mgvars,
               ervars, sqvars>>
NotCoordinator == <<wfvars, authvars, chatvars, ctxvars, rrvars, qvvars,
                    bootvars, hsvars, metvars, bmvars, cvvars, plvars,
                    mgvars, ervars, sqvars>>
NotValidator == <<wfvars, authvars, chatvars, ctxvars, rrvars, covars,
                  bootvars, hsvars, metvars, bmvars, cvvars, plvars, mgvars,
                  ervars, sqvars>>
NotStartup == <<wfvars, authvars, chatvars, ctxvars, rrvars, covars, qvvars,
                hsvars, metvars, bmvars, cvvars, plvars, mgvars, ervars,
                sqvars>>
NotHybrid == <<wfvars, authvars, chatvars, ctxvars, rrvars, covars, qvvars,
               bootvars, metvars, bmvars, cvvars, plvars, mgvars, ervars,
               sqvars>>
NotMetrics == <<wfvars, authvars, chatvars, ctxvars, rrvars, covars, qvvars,
                bootvars, hsvars, bmvars, cvvars, plvars, mgvars, ervars,
                sqvars>>
NotBM25 == <<wfvars, authvars, chatvars, ctxvars, rrvars, covars, qvvars,
             bootvars, hsvars, metvars, cvvars, plvars, mgvars, ervars,
             sqvars>>
NotConvert == <<wfvars, authvars, chatvars, ctxvars, rrvars, covars, qvvars,
                bootvars, hsvars, metvars, bmvars, plvars, mgvars, ervars,
                sqvars>>
NotPipeline == <<wfvars, authvars, chatvars, ctxvars, rrvars, covars,
                 qvvars, bootvars, hsvars, metvars, bmvars, cvvars, mgvars,
                 ervars, sqvars>>
NotMigration == <<wfvars, authvars, chatvars, ctxvars, rrvars, covars,
                  qvvars, bootvars, hsvars, metvars, bmvars, cvvars, plvars,
                  ervars, sqvars>>
NotEval == <<wfvars, authvars, chatvars, ctxvars, rrvars, covars, qvvars,
             bootvars, hsvars, metvars, bmvars, cvvars, plvars, mgvars,
             sqvars>>
NotConcurrent == <<wfvars, authvars, chatvars, ctxvars, rrvars, covars,
                   qvvars, bootvars, hsvars, metvars, bmvars, cvvars,
                   plvars, mgvars, ervars>>

(***************************************************************************)
(* Workflow orchestrator                                                   *)
(***************************************************************************)

\* The six stages in the order the executors wire them.
NodeOrder ==
  <<"coordinator", "retriever", "content_analyzer", "context_processor",
    "answer_synthesizer", "quality_validator">>

NodeNames == {NodeOrder[i] : i \in 1..Len(NodeOrder)}

\* Two orchestrator instances given the same request and the same node
\* behaviours: one constructed with the graph library (self.app set), one
\* without it (self.app = None).
Orchestrators == {"with_app", "without_app"}

\* What the quality validator can store in validation_results:
\* short answer (0.0, retry), scored answers, and its own error path (0.5).
ValidatorVerdicts ==
  { [quality_score |-> 0,  retry_recommended |-> TRUE],
    [quality_score |-> 47, retry_recommended |-> TRUE],
    [quality_score |-> 50, retry_recommended |-> FALSE],
    [quality_score |-> 85, retry_recommended |-> FALSE] }

\* How many hits the retriever finds, and how long the processed context is
\* when there are hits.
HitCounts == {0, 2}
ContextLengths == {50, 51}

\* The validator's first run and its runs after a retry may conclude
\* differently.
VerdictRuns == {"first", "retry"}

\* _run_langgraph_workflow.initial_state / _run_fallback_workflow.state
InitialState ==
  [ search_results    |-> 0,
    processed_context |-> 0,
    content_analysis  |-> EmptyDict,
    answer_data       |-> EmptyDict,
    validation_results|-> EmptyDict,
    quality_score     |-> 0,
    retry_count       |-> 0,
    messages          |-> <<>>,
    current_step      |-> "initialization",
    error             |-> "None",
    step_times        |-> {} ]

\* An empty-context answer that still bills a model call.
EmptyAnswer_Billed ==
  [ answer |-> "I couldn't find any relevant information",
    input_tokens |-> 3, output_tokens |-> 0, total_tokens |-> 3,
    cost_estimate |-> 1 ]

\* AnswerSynthesizer._empty_answer
EmptyAnswer ==
  [ answer |-> "I couldn't find any relevant information",
    input_tokens |-> 0, output_tokens |-> 0, total_tokens |-> 0,
    cost_estimate |-> 0 ]

\* AnswerSynthesizer._generate_with_gemini result (a generated answer)
GeneratedAnswer ==
  [ answer |-> "generated answer",
    input_tokens |-> 3, output_tokens |-> 2, total_tokens |-> 5,
    cost_estimate |-> 1 ]

\* The payload _run_node_safely substitutes when answer_synthesizer raises.
UnableAnswer ==
  [ answer |-> "Unable to generate answer due to processing error.",
    input_tokens |-> 0, output_tokens |-> 0, total_tokens |-> 0,
    cost_estimate |-> 0 ]

\* Number of validator runs executor ex has made in a run log.
ValidatorRuns(log, ex) ==
  Len(SelectSeq(log, LAMBDA e : e[1] = ex /\ e[2] = "quality_validator"))

\* The verdict of validator run number k.
Verdict(k) == IF k = 1 THEN verdicts["first"] ELSE verdicts["retry"]

\* The effect of a node call that returns (node.process / node.__call__).
\* k is the index of this validator run.
NodeEffect(node, s, k) ==
  CASE node = "coordinator" ->
         [s EXCEPT !.current_step = "coordination",
                   !.messages = @ \o <<"coordinator: planning", "coordinator: planned">>,
                   !.step_times = @ \cup {"coordination"}]
    [] node = "retriever" ->
         [s EXCEPT !.current_step = "retrieval",
                   !.search_results = hits,
                   !.error = IF hits = 0 THEN "No search results found" ELSE @,
                   !.messages = @ \o (IF hits = 0
                                      THEN <<"retriever: searching", "retriever: found", "retriever: no results">>
                                      ELSE <<"retriever: searching", "retriever: found">>),
                   !.step_times = @ \cup {"retrieval"}]
    [] node = "content_analyzer" ->
         [s EXCEPT !.current_step = "content_analysis",
                   !.content_analysis = IF s.search_results = 0 THEN EmptyDict
                                        ELSE [total_documents |-> s.search_results],
                   !.messages = @ \o <<"content_analyzer: analyzing">>,
                   !.step_times = @ \cup {"content_analysis"}]
    [] node = "context_processor" ->
         [s EXCEPT !.current_step = "context_processing",
                   !.processed_context = IF s.search_results = 0 THEN 0 ELSE context_len,
                   !.messages = @ \o <<"context_processor: optimizing">>,
                   !.step_times = @ \cup {"context_processing"}]
    [] node = "answer_synthesizer" ->
         [s EXCEPT !.current_step = "answer_synthesis",
                   !.answer_data = IF s.processed_context = 0 THEN EmptyAnswer
                                   ELSE GeneratedAnswer,
                   !.messages = @ \o <<"answer_synthesizer: generating">>,
                   !.step_times = @ \cup {"answer_synthesis"}]
    [] node = "quality_validator" ->
         [s EXCEPT !.current_step = "quality_validation",
                   !.validation_results =
                       [quality_score |-> Verdict(k).quality_score,
                        retry_recommended |-> Verdict(k).retry_recommended],
                   !.quality_score = Verdict(k).quality_score,
                   !.messages = @ \o <<"quality_validator: assessing">>,
                   !.step_times = @ \cup {"quality_validation"}]

\* HybridSearchWorkflow._format_result
FormatResult(o, s) ==
  [ query              |-> "q",
    search_results     |-> s.search_results,
    answer             |-> Get(s.answer_data, "answer", "No answer generated"),
    method             |-> "enhanced_hybrid_workflow",
    num_results        |-> s.search_results,
    content_analysis   |-> s.content_analysis,
    similarity_analysis|-> EmptyDict,
    validation_results |-> s.validation_results,
    step_times         |-> s.step_times,
    total_processing_time |-> Cardinality(s.step_times),
    input_tokens       |-> Get(s.answer_data, "input_tokens", 0),
    output_tokens      |-> Get(s.answer_data, "output_tokens", 0),
    total_tokens       |-> Get(s.answer_data, "total_tokens", 0),
    cost_estimate      |-> Get(s.answer_data, "cost_estimate", 0),
    workflow_messages  |-> s.messages,
    quality_score      |-> s.quality_score,
    error              |-> s.error,
    workflow_type      |-> IF app[o] THEN "langgraph" ELSE "fallback" ]

\* The decision of HybridSearchWorkflow._should_retry_answer
ShouldRetry(s) ==
  /\ Get(s.validation_results, "retry_recommended", FALSE)
  /\ s.retry_count < 1
  /\ Get(s.validation_results, "quality_score", 0) < 30
  /\ s.processed_context > 50

\* The node after n on the graph's unconditional edges.
NextNode(n) ==
  CASE n = "coordinator" -> "retriever"
    [] n = "retriever" -> "content_analyzer"
    [] n = "content_analyzer" -> "context_processor"
    [] n = "context_processor" -> "answer_synthesizer"
    [] n = "answer_synthesizer" -> "quality_validator"
    [] n = "quality_validator" -> "route"

\* The stage _run_fallback_workflow calls after n.
FallbackNext(n) ==
  CASE n = "coordinator" -> "retriever"
    [] n = "retriever" -> "content_analyzer"
    [] n = "content_analyzer" -> "context_processor"
    [] n = "context_processor" -> "answer_synthesizer"
    [] n = "answer_synthesizer" -> "quality_validator"
    [] n = "quality_validator" -> "done"

\* The orchestrators after construction, before any run.
WorkflowConstructed ==
  /\ app = [o \in Orchestrators |-> o = "with_app"]
  /\ pc = [o \in Orchestrators |-> "idle"]
  /\ executor = [o \in Orchestrators |-> "none"]
  /\ state = [o \in Orchestrators |-> InitialState]
  /\ attempted = [o \in Orchestrators |-> <<>>]
  /\ decisions = [o \in Orchestrators |-> <<>>]
  /\ result = [o \in Orchestrators |-> EmptyDict]

\* The workflow part of a specification that runs no workflow.
WorkflowQuiet ==
  /\ WorkflowConstructed
  /\ raising = {}
  /\ verdicts = [r \in VerdictRuns |-> [quality_score |-> 85, retry_recommended |-> FALSE]]
  /\ late = FALSE
  /\ hits = 0
  /\ context_len = 0

WorkflowInit ==
  /\ WorkflowConstructed
  /\ raising \in SUBSET NodeNames
  /\ verdicts \in [VerdictRuns -> ValidatorVerdicts]
  /\ late \in BOOLEAN
  /\ hits \in HitCounts
  /\ context_len \in (IF hits = 0 THEN {0} ELSE ContextLengths)

\* HybridSearchWorkflow.run: picks the executor and builds the initial state.
Run(o) ==
  /\ pc[o] = "idle"
  /\ executor' = [executor EXCEPT ![o] = IF app[o] THEN "langgraph" ELSE "fallback"]
  /\ state' = [state EXCEPT ![o] = InitialState]
  /\ pc' = [pc EXCEPT ![o] = "coordinator"]
  /\ UNCHANGED <<app, attempted, decisions, result, raising, verdicts, late, hits, context_len>>
  /\ UNCHANGED NotWorkflow

\* One node of the compiled graph (self.app.invoke).  A node that raises ends
\* invoke with the exception, and _run_langgraph_workflow then starts
\* _run_fallback_workflow on a fresh state.
GraphNode(o) ==
  /\ executor[o] = "langgraph"
  /\ pc[o] \in NodeNames
  /\ attempted' = [attempted EXCEPT ![o] = Append(@, <<"langgraph", pc[o]>>)]
  /\ IF pc[o] \in raising
     THEN /\ executor' = [executor EXCEPT ![o] = "fallback"]
          /\ state' = [state EXCEPT ![o] = InitialState]
          /\ pc' = [pc EXCEPT ![o] = "coordinator"]
     ELSE /\ state' = [state EXCEPT ![o] =
                 NodeEffect(pc[o], @, ValidatorRuns(attempted[o], "langgraph") + 1)]
          /\ pc' = [pc EXCEPT ![o] = NextNode(pc[o])]
          /\ UNCHANGED executor
  /\ UNCHANGED <<app, decisions, result, raising, verdicts, late, hits, context_len>>
  /\ UNCHANGED NotWorkflow

\* The conditional edge after quality_validator: _should_retry_answer, then
\* either back to answer_synthesizer or END and _format_result.
ShouldRetryAnswer(o) ==
  /\ executor[o] = "langgraph"
  /\ pc[o] = "route"
  /\ IF ShouldRetry(state[o])
     THEN /\ state' = [state EXCEPT ![o].retry_count = @ + 1,
                                    ![o].messages = Append(@, "retrying answer generation")]
          /\ decisions' = [decisions EXCEPT ![o] = Append(@, "retry")]
          /\ pc' = [pc EXCEPT ![o] = "answer_synthesizer"]
          /\ UNCHANGED result
     ELSE /\ decisions' = [decisions EXCEPT ![o] = Append(@, "accept")]
          /\ result' = [result EXCEPT ![o] = FormatResult(o, state[o])]
          /\ pc' = [pc EXCEPT ![o] = "done"]
          /\ UNCHANGED state
  /\ UNCHANGED <<app, executor, attempted, raising, verdicts, late, hits, context_len>>
  /\ UNCHANGED NotWorkflow

\* An except branch that records the failure and substitutes nothing.
NodeFailure_NoSubstitute(node, s, k) ==
  LET c == [s EXCEPT !.current_step = node]
      w == IF late THEN NodeEffect(node, c, k) ELSE c
  IN [w EXCEPT !.step_times = @ \cup {node},
               !.messages = Append(@, node \o " failed")]

\* The state _run_node_safely leaves when the node raised: the node's own
\* writes so far stay in the dict, then the except branch adds its own.
NodeFailure(node, s, k) ==
  LET c == [s EXCEPT !.current_step = node]
      w == IF late THEN NodeEffect(node, c, k) ELSE c
      t == [w EXCEPT !.step_times = @ \cup {node},
                     !.messages = Append(@, node \o " failed")]
  IN CASE node = "retriever" ->
            [t EXCEPT !.search_results = 0,
                      !.messages = Append(@, "Using empty search results as fallback")]
       [] node = "answer_synthesizer" ->
            [t EXCEPT !.answer_data = UnableAnswer]
       [] OTHER -> t

\* The state _run_node_safely leaves when the node returned.
NodeSuccess(node, s, k) ==
  [NodeEffect(node, [s EXCEPT !.current_step = node], k)
     EXCEPT !.step_times = @ \cup {node}]

\* HybridSearchWorkflow._run_node_safely for the stage at pc, and after the
\* last stage _format_result.
RunNodeSafely(o) ==
  /\ executor[o] = "fallback"
  /\ pc[o] \in NodeNames
  /\ attempted' = [attempted EXCEPT ![o] = Append(@, <<"fallback", pc[o]>>)]
  /\ LET s == IF pc[o] \in raising
              THEN NodeFailure(pc[o], state[o], ValidatorRuns(attempted[o], "fallback") + 1)
              ELSE NodeSuccess(pc[o], state[o], ValidatorRuns(attempted[o], "fallback") + 1)
     IN /\ state' = [state EXCEPT ![o] = s]
        /\ pc' = [pc EXCEPT ![o] = FallbackNext(pc[o])]
        /\ result' = [result EXCEPT ![o] =
              IF pc[o] = "quality_validator" THEN FormatResult(o, s) ELSE @]
  /\ UNCHANGED <<app, executor, decisions, raising, verdicts, late, hits, context_len>>
  /\ UNCHANGED NotWorkflow

WorkflowNext ==
  \E o \in Orchestrators :
    \/ Run(o)
    \/ GraphNode(o)
    \/ ShouldRetryAnswer(o)
    \/ RunNodeSafely(o)

(***************************************************************************)
(* Identity and session service, and the authentication routes             *)
(***************************************************************************)

Clients == {"c1", "c2"}
Usernames == {"alice", "bob"}
Emails == {"a@x", "b@x"}
\* Passwords given at registration and tried at login.
RegisterPasswords == {"pw"}
LoginPasswords == {"pw", "bad"}

\* AuthService.access_token_expire_minutes, in seconds of the model clock.
access_token_expire_minutes == 30
TokenLifetime == access_token_expire_minutes * 60

\* The clock advances by one second or by a whole token lifetime.
ClockSteps == {1, TokenLifetime}

\* Number of requests the clients send, and of clock advances.
MaxRequests == 3
MaxTicks == 1

NoRequest == [op |-> "none"]
NoResponse == [op |-> "none", n |-> 0]

\* A token a client makes up: not signed with the service's secret.
ForgedToken == [sub |-> "alice", user_id |-> 1, exp |-> TokenLifetime, signed |-> FALSE]

\* pwd_context.hash / pwd_context.verify
get_password_hash(password) == <<"bcrypt", password>>
verify_password(plain_password, hashed_password) ==
  hashed_password = <<"bcrypt", plain_password>>

\* AuthService.create_access_token: the signed token of the claims
\* {sub, user_id, exp}; exp is encoded in whole seconds, so the token is a
\* function of the claims and the clock second.
create_access_token(data, t) ==
  [ token  |-> [sub |-> data.sub, user_id |-> data.user_id,
                exp |-> t + TokenLifetime, signed |-> TRUE],
    expire |-> t + TokenLifetime ]

\* AuthService.verify_token: the claims, or None on a bad signature or an
\* expired token.
verify_token(token, t) == token.signed /\ token.exp >= t

\* AuthService.get_user_by_username / get_user_by_id: the matching rows.
get_user_by_username(rows, username) == {u \in rows : u.username = username}
get_user_by_id(rows, user_id) == {u \in rows : u.id = user_id}

\* A users table without unique constraints.
UsersUnique_Unenforced(rows, row) == TRUE

\* unique=True on users.username and users.email
UsersUnique(rows, row) ==
  \A u \in rows : u.username # row.username /\ u.email # row.email

\* unique=True on user_sessions.session_token
SessionTokenUnique(rows, row) ==
  \A r \in rows : r.session_token # row.session_token

\* redis_client.get("session:<token>"): the live entry, if any.
RedisLive(cache, token, t) ==
  token \in DOMAIN cache /\ t < cache[token].ttl_deadline

\* AuthService.get_current_user: the set of users the token resolves to
\* (empty for None).
ResolveCurrentUser(rows, cache, token, t) ==
  IF RedisLive(cache, token, t)
  THEN get_user_by_id(rows, cache[token].user_id)
  ELSE IF ~verify_token(token, t)
       THEN {}
       ELSE get_user_by_username(rows, token.sub)

\* AuthService.authenticate_user
authenticate_user(rows, username, password) ==
  {u \in get_user_by_username(rows, username) :
      verify_password(password, u.hashed_password)}

\* The rows of users registered before the server started.
RegisteredUsers ==
  { [ id |-> 1, username |-> "alice", email |-> "a@x",
      hashed_password |-> get_password_hash("pw"),
      is_active |-> TRUE, is_superuser |-> FALSE ] }

\* A database with registered users, no session and no request yet.
SessionInit ==
  /\ users = RegisteredUsers
  /\ user_sessions = {}
  /\ redis = EmptyDict
  /\ now = 0
  /\ ticks = 0
  /\ req = [c \in Clients |-> NoRequest]
  /\ resp = [c \in Clients |-> NoResponse]
  /\ sent = 0
  /\ issued = {}
  /\ logged_out = {}
  /\ user_id_seq = Cardinality(RegisteredUsers)
  /\ session_id_seq = 0

\* The database right after the migrations.
AuthInit ==
  /\ users = {}
  /\ user_sessions = {}
  /\ redis = EmptyDict
  /\ now = 0
  /\ ticks = 0
  /\ req = [c \in Clients |-> NoRequest]
  /\ resp = [c \in Clients |-> NoResponse]
  /\ sent = 0
  /\ issued = {}
  /\ logged_out = {}
  /\ user_id_seq = 0
  /\ session_id_seq = 0

Respond(c, r) ==
  resp' = [resp EXCEPT ![c] = [k \in (DOMAIN r) \cup {"n"} |->
                                  IF k = "n" THEN resp[c].n + 1 ELSE r[k]]]

\* POST /auth/register up to the existence check.
RegisterCheck(c, username, email, password) ==
  /\ req[c].op = "none"
  /\ sent < MaxRequests
  /\ sent' = sent + 1
  /\ IF get_user_by_username(users, username) # {}
     THEN /\ Respond(c, [op |-> "register", status |-> 400,
                         detail |-> "Username already registered",
                         username |-> username, email |-> email,
                         taken |-> TRUE, added |-> 0])
          /\ UNCHANGED req
     ELSE /\ req' = [req EXCEPT ![c] = [op |-> "register", username |-> username,
                                        email |-> email, password |-> password]]
          /\ UNCHANGED resp
  /\ UNCHANGED <<users, user_sessions, redis, now, ticks, issued, logged_out,
                 user_id_seq, session_id_seq>>
  /\ UNCHANGED NotAuth

\* POST /auth/register from create_user on: the insert, and the answer.
RegisterCreate(c) ==
  /\ req[c].op = "register"
  /\ LET row == [ id |-> user_id_seq + 1,
                  username |-> req[c].username,
                  email |-> req[c].email,
                  hashed_password |-> get_password_hash(req[c].password),
                  is_active |-> TRUE,
                  is_superuser |-> FALSE ]
     IN /\ user_id_seq' = user_id_seq + 1
        /\ IF UsersUnique(users, row)
           THEN /\ users' = users \cup {row}
                /\ Respond(c, [op |-> "register", status |-> 200,
                               detail |-> "created",
                               username |-> row.username, email |-> row.email,
                               taken |-> get_user_by_username(users, row.username) # {},
                               added |-> Cardinality(users') - Cardinality(users)])
           ELSE /\ users' = users
                /\ Respond(c, [op |-> "register", status |-> 400,
                               detail |-> "Registration failed",
                               username |-> row.username, email |-> row.email,
                               taken |-> get_user_by_username(users, row.username) # {},
                               added |-> Cardinality(users') - Cardinality(users)])
  /\ req' = [req EXCEPT ![c] = NoRequest]
  /\ UNCHANGED <<user_sessions, redis, now, ticks, sent, issued, logged_out,
                 session_id_seq>>
  /\ UNCHANGED NotAuth

\* POST /auth/login, login_user up to the cache write.
LoginBegin(c, username, password) ==
  /\ req[c].op = "none"
  /\ sent < MaxRequests
  /\ sent' = sent + 1
  /\ LET found == authenticate_user(users, username, password)
     IN IF found = {}
        THEN /\ Respond(c, [op |-> "login", status |-> 401,
                            detail |-> "Incorrect username or password"])
             /\ UNCHANGED <<req, redis>>
        ELSE LET user == CHOOSE u \in found : TRUE
             IN IF ~user.is_active
                THEN /\ Respond(c, [op |-> "login", status |-> 401,
                                    detail |-> "Inactive user"])
                     /\ UNCHANGED <<req, redis>>
                ELSE LET made == create_access_token(
                                   [sub |-> user.username, user_id |-> user.id], now)
                     IN /\ redis' = Put(redis, made.token,
                                        [ user_id |-> user.id,
                                          username |-> user.username,
                                          expires_at |-> made.expire,
                                          ttl_deadline |-> now + TokenLifetime ])
                        /\ req' = [req EXCEPT ![c] =
                                     [op |-> "login", token |-> made.token,
                                      expire |-> made.expire, user_id |-> user.id]]
                        /\ UNCHANGED resp
  /\ UNCHANGED <<users, user_sessions, now, ticks, issued, logged_out,
                 user_id_seq, session_id_seq>>
  /\ UNCHANGED NotAuth

\* POST /auth/login, login_user from the durable session row on.
LoginCommit(c) ==
  /\ req[c].op = "login"
  /\ LET row == [ id |-> session_id_seq + 1,
                  user_id |-> req[c].user_id,
                  session_token |-> req[c].token,
                  expires_at |-> req[c].expire ]
     IN /\ session_id_seq' = session_id_seq + 1
        /\ IF SessionTokenUnique(user_sessions, row)
           THEN /\ user_sessions' = user_sessions \cup {row}
                /\ issued' = issued \cup {row.session_token}
                /\ Respond(c, [op |-> "login", status |-> 200,
                               detail |-> "bearer",
                               access_token |-> row.session_token])
           ELSE /\ UNCHANGED <<user_sessions, issued>>
                /\ Respond(c, [op |-> "login", status |-> 500,
                               detail |-> "Login failed",
                               access_token |-> row.session_token])
  /\ req' = [req EXCEPT ![c] = NoRequest]
  /\ UNCHANGED <<users, redis, now, ticks, sent, logged_out, user_id_seq>>
  /\ UNCHANGED NotAuth

\* POST /auth/logout, logout_user: the cache delete.
LogoutBegin(c, token) ==
  /\ req[c].op = "none"
  /\ sent < MaxRequests
  /\ sent' = sent + 1
  /\ redis' = [k \in (DOMAIN redis) \ {token} |-> redis[k]]
  /\ req' = [req EXCEPT ![c] = [op |-> "logout", token |-> token]]
  /\ UNCHANGED <<users, user_sessions, now, ticks, resp, issued, logged_out,
                 user_id_seq, session_id_seq>>
  /\ UNCHANGED NotAuth

\* POST /auth/logout, logout_user: the row delete, and the answer.
LogoutCommit(c) ==
  /\ req[c].op = "logout"
  /\ user_sessions' = {r \in user_sessions : r.session_token # req[c].token}
  /\ logged_out' = logged_out \cup {req[c].token}
  /\ Respond(c, [op |-> "logout", status |-> 200,
                 detail |-> "Successfully logged out"])
  /\ req' = [req EXCEPT ![c] = NoRequest]
  /\ UNCHANGED <<users, redis, now, ticks, sent, issued, user_id_seq,
                 session_id_seq>>
  /\ UNCHANGED NotAuth

\* GET /auth/me: the get_current_user dependency, then the user record.
AuthMe(c, token) ==
  /\ req[c].op = "none"
  /\ sent < MaxRequests
  /\ sent' = sent + 1
  /\ LET found == ResolveCurrentUser(users, redis, token, now)
         seen == [ token |-> token,
                   cached |-> RedisLive(redis, token, now),
                   stored |-> \E r \in user_sessions : r.session_token = token,
                   valid |-> verify_token(token, now),
                   after_logout |-> token \in logged_out ]
     IN IF found = {}
        THEN Respond(c, [op |-> "me", status |-> 401,
                         detail |-> "Invalid authentication credentials",
                         seen |-> seen])
        ELSE LET user == CHOOSE u \in found : TRUE
             IN IF ~user.is_active
                THEN Respond(c, [op |-> "me", status |-> 401,
                                 detail |-> "Inactive user", seen |-> seen])
                ELSE Respond(c, [op |-> "me", status |-> 200,
                                 detail |-> user.username, seen |-> seen])
  /\ UNCHANGED <<users, user_sessions, redis, now, ticks, req, issued,
                 logged_out, user_id_seq, session_id_seq>>
  /\ UNCHANGED NotAuth

\* Time passes.
Tick(d) ==
  /\ ticks < MaxTicks
  /\ ticks' = ticks + 1
  /\ now' = now + d
  /\ UNCHANGED <<users, user_sessions, redis, req, resp, sent, issued,
                 logged_out, user_id_seq, session_id_seq>>
  /\ UNCHANGED NotAuth

\* Tokens a client can present: one it was given, or one it made up.
PresentableTokens == issued \cup {ForgedToken}

RegisterNext ==
  \/ \E c \in Clients, u \in Usernames, e \in Emails, p \in RegisterPasswords :
        RegisterCheck(c, u, e, p)
  \/ \E c \in Clients : RegisterCreate(c)

SessionNext ==
  \/ \E c \in Clients, u \in Usernames, p \in LoginPasswords : LoginBegin(c, u, p)
  \/ \E c \in Clients : LoginCommit(c)
  \/ \E c \in Clients, t \in PresentableTokens : LogoutBegin(c, t)
  \/ \E c \in Clients : LogoutCommit(c)
  \/ \E c \in Clients, t \in PresentableTokens : AuthMe(c, t)
  \/ \E d \in ClockSteps : Tick(d)

(***************************************************************************)
(* Chat service and the search routes                                      *)
(***************************************************************************)

\* None where an id is expected (ids are positive).
None == 0

\* ChatService.list_messages: limit's default.
DefaultLimit == 200
ListLimits == {2, DefaultLimit}

\* Bounds on the direct add_message and create_session calls, and on the
\* search requests served.
MaxMessages == 3
MaxChatSessions == 2
MaxSearches == 2

\* Queries by text and length; titles keep at most TitleLength characters.
TitleLength == 80
Queries == { [text |-> "short query", length |-> 11],
             [text |-> "long query", length |-> 81] }

\* Direct add_message calls.
Roles == {"user", "system"}
Contents == {"m1", "m2"}

\* The authenticated users of search requests.
CurrentUsers == { [id |-> 1, username |-> "alice"] }

\* What workflow_instance.run can do in a search request.
RunOutcomes == {"ok", "empty_answer", "malformed", "raises"}

\* The tables and serials a handler works on.
Store ==
  [ sessions |-> chat_sessions, messages |-> chat_messages,
    sseq |-> chat_session_id_seq, mseq |-> chat_message_id_seq,
    log |-> message_log ]

\* title: Optional[str] = None
NoTitle == [text |-> "", length |-> 0]

\* request.query[:80]
Title(query) ==
  [text |-> query.text,
   length |-> IF query.length < TitleLength THEN query.length ELSE TitleLength]

\* ChatService.create_session
create_session(S, user_id, title) ==
  [S EXCEPT !.sessions = @ \cup {[id |-> S.sseq + 1, user_id |-> user_id, title |-> title]},
            !.sseq = @ + 1]

\* The id column of a new chat_messages row.
NextMessageId(S) == S.mseq + 1

\* ChatService.add_message, when the insert succeeds.
add_message(S, chat_session_id, role, content, user_id) ==
  [S EXCEPT !.messages = @ \cup {[ id |-> NextMessageId(S),
                                   chat_session_id |-> chat_session_id,
                                   user_id |-> user_id,
                                   role |-> role,
                                   content |-> content ]},
            !.mseq = NextMessageId(S),
            !.log = Append(@, [chat_session_id |-> chat_session_id,
                               role |-> role, content |-> content])]

\* Whether an insert into chat_messages succeeds: db is a database session
\* (not the unresolved Depends default), the database does not fail, and the
\* foreign key chat_session_id names a row of chat_sessions.
InsertSucceeds(S, db, fault, chat_session_id) ==
  /\ db = "session"
  /\ ~fault
  /\ \E cs \in S.sessions : cs.id = chat_session_id

RECURSIVE OrderByIdAsc(_)
\* .order_by(ChatMessage.id.asc())
OrderByIdAsc(rows) ==
  IF rows = {} THEN <<>>
  ELSE LET first == CHOOSE r \in rows : \A x \in rows : r.id <= x.id
       IN <<first>> \o OrderByIdAsc(rows \ {first})

\* .limit(limit)
Limit(seq, limit) == SubSeq(seq, 1, IF Len(seq) < limit THEN Len(seq) ELSE limit)

\* A listing that does not filter by session.
list_messages_Unfiltered(S, chat_session_id, limit) ==
  Limit(OrderByIdAsc(S.messages), limit)

\* ChatService.list_messages
list_messages(S, chat_session_id, limit) ==
  Limit(OrderByIdAsc({m \in S.messages : m.chat_session_id = chat_session_id}), limit)

\* A user-message write whose exception leaves the handler.
OnUserMessageError_Raised == "raised"

\* except branch of the user-message write in search_post.
OnUserMessageError == "swallowed"

\* except branch of the assistant-message write in search_post.
OnAssistantMessageError == "swallowed"

\* The mock SearchResponse of search_post.
MockResponse(request, current_user, chat_session_id, message, error) ==
  [ status |-> 200,
    body |-> [ query |-> request.query,
               answer |-> <<"Mock response for", request.query, current_user.username>>,
               method |-> "mock",
               num_results |-> 0,
               chat_session_id |-> chat_session_id,
               workflow_messages |-> <<message>>,
               error |-> error ] ]

\* A response FastAPI produces for an exception no handler caught.
InternalServerError == [status |-> 500, body |-> EmptyDict]

\* A search_post without the outer except branch.
OnSearchError_Unhandled(request, current_user, chat_session_id, e) ==
  InternalServerError

\* The outer except branch of search_post: str(e) goes into the response.
OnSearchError(request, current_user, chat_session_id, e) ==
  MockResponse(request, current_user, chat_session_id,
               <<"Workflow error", e>>, <<"Search failed", e>>)

\* What workflow_instance.run returns: a _format_result record for the query.
RunResult(request, outcome) ==
  LET s == [InitialState EXCEPT
              !.answer_data = IF outcome = "empty_answer"
                              THEN [GeneratedAnswer EXCEPT !.answer = ""]
                              ELSE GeneratedAnswer]
      r == Put(FormatResult("with_app", s), "query", request.query)
  IN IF outcome = "malformed" THEN Without(r, "num_results") ELSE r

\* The fields of SearchResponse that have no default.
RequiredResponseFields == {"query", "answer", "num_results"}

\* SearchResponse(**{**result, "chat_session_id": chat_session_id}): the
\* declared fields of the result, with the chat session id.
SearchResponse(fields, chat_session_id) ==
  [ status |-> 200,
    body |-> Put(Without(fields, "workflow_type"), "chat_session_id", chat_session_id) ]

\* search_post(request, current_user, db): the response, the store it leaves,
\* and whether the orchestrator was invoked.
search_post(S, db, request, current_user, faults, outcome) ==
  LET create == request.chat_session_id = None
  IN IF create /\ db # "session"
     THEN [response |-> InternalServerError, store |-> S, invoked |-> FALSE,
           user_saved |-> FALSE, assistant_saved |-> FALSE]
     ELSE
       LET S1 == IF create THEN create_session(S, current_user.id, Title(request.query))
                 ELSE S
           chat_session_id == IF create THEN S1.sseq ELSE request.chat_session_id
           user_saved == InsertSucceeds(S1, db, faults.user_write, chat_session_id)
           S2 == IF user_saved
                 THEN add_message(S1, chat_session_id, "user", request.query.text,
                                  current_user.id)
                 ELSE S1
       IN IF ~user_saved /\ OnUserMessageError # "swallowed"
          THEN [response |-> InternalServerError, store |-> S2, invoked |-> FALSE,
                user_saved |-> FALSE, assistant_saved |-> FALSE]
          ELSE IF workflow_instance = "none"
          THEN [response |-> MockResponse(request, current_user, chat_session_id,
                                 "Running in mock mode - workflow not initialized",
                                 "Workflow not available"),
                store |-> S2, invoked |-> FALSE,
                user_saved |-> user_saved, assistant_saved |-> FALSE]
          ELSE IF workflow_instance = "incomplete"
          THEN [response |-> MockResponse(request, current_user, chat_session_id,
                                 "Running in mock mode - workflow components not available",
                                 "Workflow components not available"),
                store |-> S2, invoked |-> FALSE,
                user_saved |-> user_saved, assistant_saved |-> FALSE]
          ELSE IF outcome = "raises"
          THEN [response |-> OnSearchError(request, current_user, chat_session_id,
                                           "orchestrator error"),
                store |-> S2, invoked |-> TRUE,
                user_saved |-> user_saved, assistant_saved |-> FALSE]
          ELSE
            LET run_result == RunResult(request, outcome)
                answer_text == Get(run_result, "answer", "")
                assistant_saved ==
                  /\ answer_text # ""
                  /\ InsertSucceeds(S2, db, faults.assistant_write, chat_session_id)
                S3 == IF assistant_saved
                      THEN add_message(S2, chat_session_id, "assistant", answer_text,
                                       current_user.id)
                      ELSE S2
            IN IF /\ answer_text # ""
                  /\ ~assistant_saved
                  /\ OnAssistantMessageError # "swallowed"
               THEN [response |-> OnSearchError(request, current_user, chat_session_id,
                                                "assistant message error"),
                     store |-> S3, invoked |-> TRUE,
                     user_saved |-> user_saved, assistant_saved |-> FALSE]
               ELSE IF ~(RequiredResponseFields \subseteq DOMAIN run_result)
               THEN [response |-> OnSearchError(request, current_user, chat_session_id,
                                                "validation error"),
                     store |-> S3, invoked |-> TRUE,
                     user_saved |-> user_saved, assistant_saved |-> assistant_saved]
               ELSE [response |-> SearchResponse(run_result, chat_session_id),
                     store |-> S3, invoked |-> TRUE,
                     user_saved |-> user_saved, assistant_saved |-> assistant_saved]

\* search_get(...): wraps the query parameters into a SearchRequest and calls
\* search_post(request, current_user); db keeps its default, the unresolved
\* Depends(get_db) object.
search_get(S, query, chat_session_id, current_user, faults, outcome) ==
  search_post(S, "Depends", [query |-> query, chat_session_id |-> chat_session_id],
              current_user, faults, outcome)

\* The chat tables after the migrations, and nothing observed yet.
ChatEmpty ==
  /\ chat_sessions = {}
  /\ chat_messages = {}
  /\ chat_session_id_seq = 0
  /\ chat_message_id_seq = 0
  /\ message_log = <<>>
  /\ listing = [op |-> "none"]
  /\ searches = 0
  /\ last_search = [route |-> "none"]

\* The chat part of a specification that serves no search request.
ChatQuiet == ChatEmpty /\ workflow_instance = "none"

\* The server after startup: the orchestrator was built, built incompletely,
\* or failed to build.
SearchInit == ChatEmpty /\ workflow_instance \in {"ready", "incomplete", "none"}

SetStore(S) ==
  /\ chat_sessions' = S.sessions
  /\ chat_messages' = S.messages
  /\ chat_session_id_seq' = S.sseq
  /\ chat_message_id_seq' = S.mseq
  /\ message_log' = S.log

\* ChatService.create_session called directly.
CreateSession(user, title) ==
  /\ chat_session_id_seq < MaxChatSessions
  /\ SetStore(create_session(Store, user.id, title))
  /\ UNCHANGED <<listing, workflow_instance, searches, last_search>>
  /\ UNCHANGED NotChat

\* ChatService.add_message called directly on an existing session.
AddMessage(chat_session_id, role, content) ==
  /\ chat_message_id_seq < MaxMessages
  /\ InsertSucceeds(Store, "session", FALSE, chat_session_id)
  /\ SetStore(add_message(Store, chat_session_id, role, content, None))
  /\ UNCHANGED <<listing, workflow_instance, searches, last_search>>
  /\ UNCHANGED NotChat

\* The messages of a session in the order add_message was called.
SessionLog(log, chat_session_id) ==
  SelectSeq(log, LAMBDA e : e.chat_session_id = chat_session_id)

\* role and content of a sequence of rows.
RoleContent(rows) ==
  [i \in 1..Len(rows) |-> [role |-> rows[i].role, content |-> rows[i].content]]

\* ChatService.list_messages called with a limit.
ListMessages(chat_session_id, limit) ==
  /\ listing' = [ op |-> "list_messages",
                  chat_session_id |-> chat_session_id,
                  limit |-> limit,
                  n |-> Len(SessionLog(message_log, chat_session_id)),
                  rows |-> list_messages(Store, chat_session_id, limit) ]
  /\ UNCHANGED <<chat_sessions, chat_messages, chat_session_id_seq,
                 chat_message_id_seq, message_log, workflow_instance, searches,
                 last_search>>
  /\ UNCHANGED NotChat

\* POST /search for an authenticated user.
SearchPost(request, current_user, faults, outcome) ==
  /\ searches < MaxSearches
  /\ searches' = searches + 1
  /\ LET out == search_post(Store, "session", request, current_user, faults, outcome)
     IN /\ SetStore(out.store)
        /\ last_search' = [ route |-> "POST", request |-> request,
                            current_user |-> current_user, faults |-> faults,
                            outcome |-> outcome, before |-> Store, out |-> out ]
  /\ UNCHANGED <<listing, workflow_instance>>
  /\ UNCHANGED NotChat

\* GET /search for an authenticated user.
SearchGet(request, current_user, faults, outcome) ==
  /\ searches < MaxSearches
  /\ searches' = searches + 1
  /\ LET out == search_get(Store, request.query, request.chat_session_id,
                           current_user, faults, outcome)
     IN /\ SetStore(out.store)
        /\ last_search' = [ route |-> "GET", request |-> request,
                            current_user |-> current_user, faults |-> faults,
                            outcome |-> outcome, before |-> Store, out |-> out ]
  /\ UNCHANGED <<listing, workflow_instance>>
  /\ UNCHANGED NotChat

\* chat_session_id of a request: omitted, the id of a session, or an id
\* that names no session.
RequestSessionIds == {None} \cup (1..(chat_session_id_seq + 1))

SearchRequests == [query : Queries, chat_session_id : RequestSessionIds]

Faults == [user_write : BOOLEAN, assistant_write : BOOLEAN]

ChatNext ==
  \/ \E u \in CurrentUsers : CreateSession(u, NoTitle)
  \/ \E id \in 1..MaxChatSessions, r \in Roles, m \in Contents : AddMessage(id, r, m)
  \/ \E id \in 1..MaxChatSessions, l \in ListLimits : ListMessages(id, l)

SearchNext ==
  \/ \E rq \in SearchRequests, u \in CurrentUsers, f \in Faults, oc \in RunOutcomes :
        SearchPost(rq, u, f, oc)
  \/ \E rq \in SearchRequests, u \in CurrentUsers, f \in Faults, oc \in RunOutcomes :
        SearchGet(rq, u, f, oc)

(***************************************************************************)
(* Context processor node                                                  *)
(***************************************************************************)

\* Passage lengths in characters, and budgets (config.max_context_tokens).
PassageChars == {80, 100, 800}
ContextBudgets == {50, 200}

\* Bound on the number of hits of a request.
MaxHits == 3

\* f"[Source {i + 1}] ", "\n\n" and "..." in characters.
SourcePrefixChars == 11
JoinChars == 2
EllipsisChars == 3

\* search_results[:5] and the "meaningful space" threshold.
FallbackTopK == 5
MeaningfulTokens == 100

\* A text of n characters, and the empty context_metadata.
Str(n) == [type |-> "str", chars |-> n]

\* TokenCounter.count_tokens without a tokenizer: len(text) // 4
count_tokens(text) == text.chars \div 4

\* A raw hit of the search engine: _id, _score, _source.passage_text.
Hit(i, chars) ==
  [shape |-> "hit", id |-> i, score |-> 100 - i, passage_text |-> Str(chars)]

\* The hit lists of a request: at most MaxHits hits, best score first.
HitLists ==
  UNION { { [i \in 1..n |-> Hit(i, f[i])] : f \in [1..n -> PassageChars] } : n \in 0..MaxHits }

\* The document __call__ builds from hit number i (index i - 1).
Document(hit, i) ==
  [shape |-> "passage", text |-> hit.passage_text,
   metadata |-> [source_id |-> hit.id, score |-> hit.score, index |-> i - 1]]

\* "\n\n".join(context_parts) of parts given by their lengths.
RECURSIVE JoinParts(_)
JoinParts(parts) ==
  IF parts = <<>> THEN Str(0)
  ELSE IF Len(parts) = 1 THEN Str(parts[1])
  ELSE Str(parts[1] + JoinChars + JoinParts(Tail(parts)).chars)

\* The loop of _fallback_context_processing from hit i on.
RECURSIVE FallbackLoop(_, _, _, _, _)
FallbackLoop(results, i, context_parts, total_tokens, max_tokens) ==
  IF i > Len(results)
  THEN [context_parts |-> context_parts, total_tokens |-> total_tokens]
  ELSE LET text == results[i].passage_text
           tokens == count_tokens(text)
           remaining_tokens == max_tokens - total_tokens
           cut == IF text.chars < remaining_tokens * 4 THEN text.chars
                  ELSE remaining_tokens * 4
       IN IF total_tokens + tokens <= max_tokens
          THEN FallbackLoop(results, i + 1,
                            Append(context_parts, SourcePrefixChars + text.chars),
                            total_tokens + tokens, max_tokens)
          ELSE [context_parts |->
                  IF remaining_tokens > MeaningfulTokens
                  THEN Append(context_parts, SourcePrefixChars + cut + EllipsisChars)
                  ELSE context_parts,
                total_tokens |-> total_tokens]

\* ContextProcessor._fallback_context_processing: raises KeyError('_source')
\* on an item that is not a raw hit.
fallback_context_processing(search_results, max_tokens) ==
  LET top == SubSeq(search_results, 1,
                    IF Len(search_results) < FallbackTopK THEN Len(search_results)
                    ELSE FallbackTopK)
  IN IF top # <<>> /\ top[1].shape # "hit"
     THEN [raised |-> TRUE]
     ELSE LET done == FallbackLoop(top, 1, <<>>, 0, max_tokens)
          IN [raised |-> FALSE,
              context |-> JoinParts(done.context_parts),
              metadata |-> [total_tokens |-> done.total_tokens,
                            num_sources |-> Len(done.context_parts),
                            optimization_score |-> 0]]

\* sorted(documents, key=score, reverse=True): stable, best score first.
RECURSIVE SortedByScore(_)
SortedByScore(documents) ==
  IF documents = <<>> THEN <<>>
  ELSE LET best == CHOOSE i \in 1..Len(documents) :
                     /\ \A j \in 1..Len(documents) :
                          documents[j].metadata.score <= documents[i].metadata.score
                     /\ \A j \in 1..(i - 1) :
                          documents[j].metadata.score < documents[i].metadata.score
       IN <<documents[best]>> \o
          SortedByScore([j \in 1..(Len(documents) - 1) |->
                           IF j < best THEN documents[j] ELSE documents[j + 1]])

\* The selection loop shared by _simple_context_selection, _smart_selection
\* and _simple_selection: documents in order while they fit.
RECURSIVE SelectWhileFits(_, _, _)
SelectWhileFits(documents, total_tokens, max_tokens) ==
  IF documents = <<>> THEN <<>>
  ELSE LET doc_tokens == count_tokens(documents[1].text)
       IN IF total_tokens + doc_tokens <= max_tokens
          THEN <<documents[1]>> \o
               SelectWhileFits(Tail(documents), total_tokens + doc_tokens, max_tokens)
          ELSE <<>>

\* len(selected) / len(documents), in hundredths.
SelectionScore(selected, documents) ==
  IF documents = <<>> THEN 0 ELSE (100 * Len(selected)) \div Len(documents)

\* ContextProcessor._simple_context_selection
simple_context_selection(documents, max_tokens) ==
  LET selected == SelectWhileFits(SortedByScore(documents), 0, max_tokens)
  IN [selected_passages |-> selected, score |-> SelectionScore(selected, documents)]

\* ContextOptimizer.forward: _smart_selection, or _simple_selection when the
\* selector raised.
context_optimizer(documents, max_tokens, selector_raises) ==
  LET selected == IF selector_raises
                  THEN SelectWhileFits(documents, 0, max_tokens)
                  ELSE SelectWhileFits(SortedByScore(documents), 0, max_tokens)
  IN [selected_passages |-> selected, score |-> SelectionScore(selected, documents)]

\* The loop of _process_with_llamaindex from passage i on.
RECURSIVE LlamaindexLoop(_, _, _, _, _)
LlamaindexLoop(passages, i, context_parts, total_tokens, max_tokens) ==
  IF i > Len(passages)
  THEN [context_parts |-> context_parts, total_tokens |-> total_tokens]
  ELSE LET tokens == count_tokens(passages[i].text)
       IN IF total_tokens + tokens <= max_tokens
          THEN LlamaindexLoop(passages, i + 1,
                              Append(context_parts, SourcePrefixChars + passages[i].text.chars),
                              total_tokens + tokens, max_tokens)
          ELSE [context_parts |-> context_parts, total_tokens |-> total_tokens]

\* ContextProcessor._process_with_llamaindex: raises when building the index
\* or the query engine raises.
process_with_llamaindex(context_data, max_tokens, index_raises) ==
  IF index_raises THEN [raised |-> TRUE]
  ELSE LET done == LlamaindexLoop(context_data.selected_passages, 1, <<>>, 0, max_tokens)
       IN [raised |-> FALSE,
           context |-> JoinParts(done.context_parts),
           metadata |-> [total_tokens |-> done.total_tokens,
                         num_sources |-> Len(done.context_parts),
                         optimization_score |-> context_data.score]]

\* The state a request has when the context processor is called.
ContextState(search_results) ==
  [ search_results |-> search_results,
    processed_context |-> Str(0),
    context_metadata |-> EmptyDict,
    error |-> "None",
    current_step |-> "content_analysis",
    messages |-> <<>>,
    step_times |-> {} ]

\* ContextProcessor.__call__
context_processor_call(s, env) ==
  LET c == [s EXCEPT !.current_step = "context_processing",
                     !.messages = Append(@, <<"Optimizing context window", 0>>)]
  IN IF c.search_results = <<>>
     THEN [c EXCEPT !.processed_context = Str(0),
                    !.context_metadata = EmptyDict,
                    !.step_times = @ \cup {"context_processing"}]
     ELSE
       LET documents == [i \in 1..Len(c.search_results) |-> Document(c.search_results[i], i)]
           optimized_context ==
             IF env.dspy
             THEN context_optimizer(documents, env.max_context_tokens, env.selector_raises)
             ELSE simple_context_selection(documents, env.max_context_tokens)
           processed ==
             IF env.llamaindex
             THEN process_with_llamaindex(optimized_context, env.max_context_tokens,
                                          env.index_raises)
             ELSE fallback_context_processing(optimized_context.selected_passages,
                                              env.max_context_tokens)
       IN IF ~processed.raised
          THEN [c EXCEPT !.processed_context = processed.context,
                         !.context_metadata = processed.metadata,
                         !.messages = Append(@, <<"Optimized to tokens",
                                                  processed.metadata.total_tokens>>),
                         !.step_times = @ \cup {"context_processing"}]
          ELSE [c EXCEPT !.error = "Context processing error",
                         !.processed_context =
                            [type |-> "dict",
                             value |-> fallback_context_processing(c.search_results,
                                                                   env.max_context_tokens)],
                         !.messages = Append(@, <<"Context Processor: Error", 0>>),
                         !.step_times = @ \cup {"context_processing"}]

\* The optional libraries of a deployment and whether their calls raise.
ContextEnvs ==
  { e \in [dspy : BOOLEAN, llamaindex : BOOLEAN, selector_raises : BOOLEAN,
           index_raises : BOOLEAN, max_context_tokens : ContextBudgets] :
      /\ e.selector_raises => e.dspy
      /\ e.index_raises => e.llamaindex }

NoReturn == [called |-> FALSE]

\* The context part of a specification that does not call the node.
ContextQuiet ==
  /\ cp_env = [dspy |-> FALSE, llamaindex |-> FALSE, selector_raises |-> FALSE,
               index_raises |-> FALSE, max_context_tokens |-> 50]
  /\ cp_state = ContextState(<<>>)
  /\ cp_pc = "done"
  /\ fallback_ret = NoReturn

\* A request arriving at the context processor.
ContextInit ==
  /\ cp_env \in ContextEnvs
  /\ cp_state \in {ContextState(h) : h \in HitLists}
  /\ cp_pc = "ready"
  /\ fallback_ret = NoReturn

\* ContextProcessor.__call__ on the request's state.
ContextProcessorCall ==
  /\ cp_pc = "ready"
  /\ cp_state' = context_processor_call(cp_state, cp_env)
  /\ cp_pc' = "done"
  /\ UNCHANGED <<cp_env, fallback_ret>>
  /\ UNCHANGED NotContext

\* _fallback_context_processing called on the request's raw hits.
FallbackContextProcessing ==
  /\ ~fallback_ret.called
  /\ fallback_ret' =
       [called |-> TRUE, search_results |-> cp_state.search_results,
        ret |-> fallback_context_processing(cp_state.search_results,
                                            cp_env.max_context_tokens)]
  /\ UNCHANGED <<cp_env, cp_state, cp_pc>>
  /\ UNCHANGED NotContext

ContextNext ==
  \/ ContextProcessorCall
  \/ FallbackContextProcessing

(***************************************************************************)
(* Retriever node: multi-stage search and its rerank                       *)
(***************************************************************************)
\* Scores are floats in the source.  The model keeps them as exact reduced
\* fractions [num, den] of non-negative integers, so that two scores compare
\* as the real numbers the floats approximate.  Input vector scores are in
\* tenths (0.9 is 9); only their ratio to the list maximum is ever read.

RECURSIVE Gcd(_, _)
Gcd(a, b) == IF b = 0 THEN a ELSE Gcd(b, a % b)

Frac(n, d) ==
  LET g == Gcd(n, d) IN
    IF n = 0 THEN [num |-> 0, den |-> 1] ELSE [num |-> n \div g, den |-> d \div g]

\* x + y
FAdd(x, y) ==
  LET l == (x.den \div Gcd(x.den, y.den)) * y.den IN
    Frac(x.num * (l \div x.den) + y.num * (l \div y.den), l)

\* x * y
FMul(x, y) ==
  LET g1 == Gcd(x.num, y.den)
      g2 == Gcd(y.num, x.den) IN
    IF x.num = 0 \/ y.num = 0 THEN Frac(0, 1)
    ELSE Frac((x.num \div g1) * (y.num \div g2),
              (x.den \div g2) * (y.den \div g1))

\* a/b < c/d, by comparing the continued-fraction expansions.
RECURSIVE RatioLess(_, _, _, _)
RatioLess(a, b, c, d) ==
  LET q1 == a \div b
      q2 == c \div d
      r1 == a % b
      r2 == c % d IN
    IF q1 # q2 THEN q1 < q2
    ELSE IF r2 = 0 THEN FALSE
    ELSE IF r1 = 0 THEN TRUE
    ELSE RatioLess(d, r2, b, r1)

\* x < y
FLess(x, y) == RatioLess(x.num, x.den, y.num, y.den)

\* The documents of the index, the scores the two engines give them, and
\* the sizes a request may ask for.
DocIds == {"A", "B", "C"}
VectorScores == {5, 9}
BM25Scores == {0, 2, 10}
MaxRanked == 2
MaxFinalSize == 3

\* A hit as OpenSearch returns it.
ScoredHit(doc_id, s) == [id |-> doc_id, score |-> s]

\* What vector_search or bm25_search can return: at most one hit per
\* document, best score first.
Rankings(scores) ==
  {hs \in UNION {[1..n -> {ScoredHit(d, s) : d \in DocIds, s \in scores}]
                  : n \in 0..MaxRanked} :
     /\ \A i, j \in DOMAIN hs : i < j =>
          /\ hs[i].id # hs[j].id
          /\ hs[i].score >= hs[j].score}

\* max((hit['_score'] for hit in results), default=1)
MaxScore(results) ==
  IF Len(results) = 0 THEN 1
  ELSE CHOOSE m \in {results[i].score : i \in DOMAIN results} :
         \A i \in DOMAIN results : results[i].score <= m

\* bm25_scores / bm25_ranks: the dict the first loop builds, as the last
\* position at which an id occurs.
LastRank(results, doc_id) ==
  LET at == {i \in DOMAIN results : results[i].id = doc_id} IN
    IF at = {} THEN 0 ELSE CHOOSE i \in at : \A j \in at : j <= i

\* The entry of all_docs for the vector hit at position rank.
VectorEntry(vector_results, bm25_results, rank) ==
  LET hit == vector_results[rank]
      r == LastRank(bm25_results, hit.id) IN
    [hit |-> hit,
     vector_score |-> hit.score,
     vector_rank |-> rank,
     bm25_score |-> IF r = 0 THEN 0 ELSE bm25_results[r].score,
     bm25_rank |-> IF r = 0 THEN Len(bm25_results) + 1 ELSE r]

\* The entry of all_docs for a hit only BM25 found.
BM25Entry(vector_results, bm25_results, rank) ==
  [hit |-> bm25_results[rank],
   vector_score |-> 0,
   vector_rank |-> Len(vector_results) + 1,
   bm25_score |-> bm25_results[rank].score,
   bm25_rank |-> rank]

\* all_docs in insertion order: the vector hits (a repeated id keeps its
\* first place and its last entry), then the hits only BM25 found.
AllDocs(vector_results, bm25_results) ==
  LET firstV == SelectSeq([i \in DOMAIN vector_results |-> i],
                  LAMBDA i : \A j \in 1..(i - 1) :
                               vector_results[j].id # vector_results[i].id)
      onlyB == SelectSeq([i \in DOMAIN bm25_results |-> i],
                  LAMBDA i : /\ LastRank(vector_results, bm25_results[i].id) = 0
                             /\ \A j \in 1..(i - 1) :
                                  bm25_results[j].id # bm25_results[i].id) IN
    [n \in DOMAIN firstV |->
       VectorEntry(vector_results, bm25_results,
                   LastRank(vector_results, vector_results[firstV[n]].id))]
    \o [n \in DOMAIN onlyB |->
          BM25Entry(vector_results, bm25_results, onlyB[n])]

rrf_k == 60
alpha == Frac(7, 10)
one_minus_alpha == Frac(3, 10)

\* A fusion of the normalised scores alone, without the rank terms.
CombinedScore_ScoresOnly(data, max_vector_score, max_bm25_score) ==
  LET norm_vector_score ==
        IF max_vector_score > 0 THEN Frac(data.vector_score, max_vector_score)
        ELSE Frac(0, 1)
      norm_bm25_score ==
        IF max_bm25_score > 0 THEN Frac(data.bm25_score, max_bm25_score)
        ELSE Frac(0, 1) IN
    FAdd(FMul(alpha, norm_vector_score),
         FMul(one_minus_alpha, norm_bm25_score))

\* combined_score of one all_docs entry.
CombinedScore(data, max_vector_score, max_bm25_score) ==
  LET norm_vector_score ==
        IF max_vector_score > 0 THEN Frac(data.vector_score, max_vector_score)
        ELSE Frac(0, 1)
      norm_bm25_score ==
        IF max_bm25_score > 0 THEN Frac(data.bm25_score, max_bm25_score)
        ELSE Frac(0, 1)
      rrf_vector == Frac(1, rrf_k + data.vector_rank)
      rrf_bm25 == Frac(1, rrf_k + data.bm25_rank)
      score_fusion == FAdd(FMul(alpha, norm_vector_score),
                           FMul(one_minus_alpha, norm_bm25_score))
      rrf_fusion == FAdd(FMul(alpha, rrf_vector),
                         FMul(one_minus_alpha, rrf_bm25)) IN
    FAdd(FMul(Frac(7, 10), score_fusion), FMul(Frac(3, 10), rrf_fusion))

\* new_hit: the hit with the fused score and the two original scores.
NewHit(data, max_vector_score, max_bm25_score) ==
  [id |-> data.hit.id,
   score |-> CombinedScore(data, max_vector_score, max_bm25_score),
   vector_score |-> data.vector_score,
   bm25_score |-> data.bm25_score]

\* list.sort(key=score, reverse=True): stable, highest score first.
RECURSIVE InsertByScore(_, _)
InsertByScore(sorted, h) ==
  IF sorted = << >> THEN <<h>>
  ELSE IF FLess(Head(sorted).score, h.score) THEN <<h>> \o sorted
  ELSE <<Head(sorted)>> \o InsertByScore(Tail(sorted), h)

RECURSIVE SortByScoreDesc(_)
SortByScoreDesc(hs) ==
  IF hs = << >> THEN << >>
  ELSE InsertByScore(SortByScoreDesc(SubSeq(hs, 1, Len(hs) - 1)), hs[Len(hs)])

rerank_results(vector_results, bm25_results) ==
  IF Len(vector_results) = 0 THEN bm25_results
  ELSE IF Len(bm25_results) = 0 THEN vector_results
  ELSE
    LET max_bm25_score == MaxScore(bm25_results)
        max_vector_score == MaxScore(vector_results)
        all_docs == AllDocs(vector_results, bm25_results) IN
      SortByScoreDesc([n \in DOMAIN all_docs |->
                         NewHit(all_docs[n], max_vector_score, max_bm25_score)])

\* final_results[:final_size]; final_size is None when the request names no
\* number (a slice to None is the whole list), else 1..100.
multi_stage_search(vector_results, bm25_results, final_size) ==
  IF Len(vector_results) = 0 /\ Len(bm25_results) = 0 THEN << >>
  ELSE
    LET final_results == rerank_results(vector_results, bm25_results) IN
      IF final_size = None \/ final_size >= Len(final_results)
      THEN final_results
      ELSE SubSeq(final_results, 1, final_size)

RerankQuiet ==
  /\ rr_in = [vector_results |-> << >>, bm25_results |-> << >>,
              final_size |-> None]
  /\ rr_out = [op |-> "none", results |-> << >>]

\* One retrieval: what the two engine calls returned and the size asked for.
RerankInit ==
  /\ rr_in \in [vector_results : Rankings(VectorScores),
                bm25_results : Rankings(BM25Scores),
                final_size : {None} \cup 1..MaxFinalSize]
  /\ rr_out = [op |-> "none", results |-> << >>]

\* RetrieverNode._rerank_results on the two lists.
RerankResults ==
  /\ rr_out.op = "none"
  /\ rr_out' = [op |-> "rerank",
                results |-> rerank_results(rr_in.vector_results,
                                           rr_in.bm25_results)]
  /\ UNCHANGED rr_in
  /\ UNCHANGED NotRerank

\* RetrieverNode.multi_stage_search once the two engine calls returned.
MultiStageSearch ==
  /\ rr_out.op = "none"
  /\ rr_out' = [op |-> "multi_stage",
                results |-> multi_stage_search(rr_in.vector_results,
                                               rr_in.bm25_results,
                                               rr_in.final_size)]
  /\ UNCHANGED rr_in
  /\ UNCHANGED NotRerank

RerankNext == RerankResults \/ MultiStageSearch

(***************************************************************************)
(* Coordinator node                                                        *)
(***************************************************************************)
\* A query is represented by what the coordinator reads of it: the number of
\* whitespace-separated words and whether any character is a digit.

MaxQueryWords == 12

Query(n, digit) == [type |-> "query", words |-> n, has_digit |-> digit]

\* A query of no words is whitespace only and holds no digit.
CoordinatorQueries ==
  {Query(n, d) : n \in 0..MaxQueryWords, d \in BOOLEAN} \ {Query(0, TRUE)}

\* search_method as the request may give it; "None" when the request names
\* none (server.py passes the missing field on as None).
SearchMethods == {"auto", "vector", "bm25", "multi_stage", "hybrid", "None"}

\* len(state["query"].split())
query_length(query) == query.words

\* any(char.isdigit() for char in state["query"])
any_digit(query) == query.has_digit

\* A recommendation that takes the short-query bound as exclusive.
recommended_method_Exclusive(query) ==
  IF query_length(query) < 3 /\ any_digit(query) THEN "bm25"
  ELSE IF query_length(query) > 10 THEN "vector"
  ELSE "multi_stage"

recommended_method(query) ==
  IF query_length(query) <= 3 /\ any_digit(query) THEN "bm25"
  ELSE IF query_length(query) > 10 THEN "vector"
  ELSE "multi_stage"

\* The states _run_langgraph_workflow and _run_fallback_workflow hand to the
\* first node.
CoordinatorStates ==
  [query : CoordinatorQueries,
   index_name : {"passages", "docs"},
   search_method : SearchMethods,
   num_results : {None, 1, 5},
   messages : {<< >>},
   step_times : {{}},
   current_step : {"initialization"}]

\* CoordinatorNode.__call__
coordinator_call(s) ==
  LET auto == s.search_method = "auto"
      s1 == [s EXCEPT !.current_step = "coordination",
                      !.messages = Append(@, "analyzing")]
      s2 == IF auto
            THEN [s1 EXCEPT !.search_method = recommended_method(s.query),
                            !.messages = Append(@, "recommended")]
            ELSE s1 IN
    [s2 EXCEPT !.step_times = @ \cup {"coordination"},
               !.messages = Append(@, "planned")]

CoordinatorQuiet ==
  /\ co_in = [query |-> Query(1, FALSE), index_name |-> "passages",
              search_method |-> "None", num_results |-> None,
              messages |-> << >>, step_times |-> {},
              current_step |-> "initialization"]
  /\ co_state = co_in
  /\ co_pc = "ready"

CoordinatorInit ==
  /\ co_in \in CoordinatorStates
  /\ co_state = co_in
  /\ co_pc = "ready"

CoordinatorCall ==
  /\ co_pc = "ready"
  /\ co_state' = coordinator_call(co_state)
  /\ co_pc' = "done"
  /\ UNCHANGED co_in
  /\ UNCHANGED NotCoordinator

CoordinatorNext == CoordinatorCall

(***************************************************************************)
(* Quality validator node                                                  *)
(***************************************************************************)
\* An answer is represented by what the validator reads of it: its length,
\* which of "Source i" / "[i]" (i in 1..5) occur in it, its set of lowercased
\* whitespace-separated words, and which keywords occur in it as substrings.
\* Factors are in hundredths (0.9 is 90).  quality_score is the float mean of
\* the factors: [sum, n, ulps] stands for sum/(100*n) plus ulps units in the
\* last place, so that a mean of exactly 0.7 and one rounded just above it
\* are told apart.

Words == {"w1", "w2", "w3"}
Keywords == {"k1", "k2"}
AnswerChars == {9, 10, 99, 100, 150, 2000, 2001}
ReferenceSets == {{}, {1}, {2, 5}}

quality_threshold == 70
retry_threshold == 50

Answer(n, refs, ws, kws) ==
  [type |-> "str", chars |-> n, refs |-> refs, words |-> ws, keywords |-> kws]

NoneAnswer == [type |-> "None"]

Answers ==
  {Answer(0, {}, {}, {})}
  \cup {Answer(n, refs, ws, kws) : n \in AnswerChars, refs \in ReferenceSets,
                                    ws \in SUBSET Words,
                                    kws \in {{}, {"k1"}}}

\* answer_data as the earlier stages leave it: {} (nothing synthesised), or
\* a dict holding the answer.
AnswerData ==
  {[type |-> "dict", has_answer |-> FALSE, answer |-> NoneAnswer]}
  \cup {[type |-> "dict", has_answer |-> TRUE, answer |-> a]
          : a \in Answers \cup {NoneAnswer}}

\* content_analysis: {} or the analyzer's dict with its top keywords.
ContentAnalyses ==
  {[empty |-> TRUE, top_keywords |-> << >>],
   [empty |-> FALSE, top_keywords |-> << >>],
   [empty |-> FALSE, top_keywords |-> <<"k1">>],
   [empty |-> FALSE, top_keywords |-> <<"k2", "k2", "k2", "k1">>]}

ValidatorStates ==
  [query_words : SUBSET Words,
   answer_data : AnswerData \cup {[type |-> "missing"]},
   content_analysis : ContentAnalyses,
   messages : {<< >>},
   step_times : {{}},
   current_step : {"answer_synthesis"},
   error : {"None"}]

RECURSIVE SumSeq(_)
SumSeq(s) == IF s = << >> THEN 0 ELSE Head(s) + SumSeq(Tail(s))

\* The factor lists whose float mean comes out one unit in the last place
\* above the exact quotient at a threshold (0.7000000000000001 for 2.8/4).
RoundedUp == {<<40, 90, 90, 60>>, <<90, 90, 40, 60>>}

\* A score that is the weakest factor instead of the mean.
Mean_Weakest(factors) ==
  [sum |-> CHOOSE f \in {factors[i] : i \in DOMAIN factors} :
             \A i \in DOMAIN factors : f <= factors[i],
   n |-> 1, ulps |-> 0]

\* np.mean(quality_factors)
Mean(factors) ==
  [sum |-> SumSeq(factors), n |-> Len(factors),
   ulps |-> IF factors \in RoundedUp THEN 1 ELSE 0]

ZeroScore == [sum |-> 0, n |-> 1, ulps |-> 0]

\* score > threshold and score < threshold, threshold in hundredths.
ScoreAbove(score, threshold) ==
  \/ score.sum > threshold * score.n
  \/ score.sum = threshold * score.n /\ score.ulps > 0

ScoreBelow(score, threshold) == score.sum < threshold * score.n

\* A validator that rejects only the empty answer.
TooShort_EmptyOnly(answer) == answer.type = "None" \/ answer.chars = 0

\* The first branch of __call__: no answer, or fewer than 10 characters.
TooShort(answer) == answer.type = "None" \/ answer.chars < 10

\* A length check that gives a brief answer no credit at all.
LengthCheck_BriefIsZero(answer) ==
  IF answer.chars < 100 THEN [factor |-> 0, issues |-> <<"too brief">>]
  ELSE IF answer.chars > 2000 THEN [factor |-> 70, issues |-> <<"too verbose">>]
  ELSE [factor |-> 90, issues |-> << >>]

\* The length, source, relevance and analysis checks, in source order; each
\* yields a factor and possibly an issue.
LengthCheck(answer) ==
  IF answer.chars < 100 THEN [factor |-> 40, issues |-> <<"too brief">>]
  ELSE IF answer.chars > 2000 THEN [factor |-> 70, issues |-> <<"too verbose">>]
  ELSE [factor |-> 90, issues |-> << >>]

source_references(answer) == Cardinality(answer.refs \cap 1..5)

SourceCheck(answer) ==
  IF source_references(answer) > 0 THEN [factor |-> 90, issues |-> << >>]
  ELSE [factor |-> 50, issues |-> <<"no sources">>]

\* len(query_words & answer_words) / len(query_words) if query_words else 0
relevance_ratio(query_words, answer) ==
  IF query_words = {} THEN Frac(0, 1)
  ELSE Frac(Cardinality(query_words \cap answer.words),
            Cardinality(query_words))

RelevanceCheck(query_words, answer) ==
  LET r == relevance_ratio(query_words, answer) IN
    IF 2 * r.num > r.den THEN [factor |-> 90, issues |-> << >>]
    ELSE IF 10 * r.num > 3 * r.den THEN [factor |-> 70, issues |-> << >>]
    ELSE [factor |-> 40, issues |-> <<"not relevant">>]

AnalysisCheck(content_analysis, answer) ==
  LET kws == content_analysis.top_keywords IN
    IF /\ ~content_analysis.empty
       /\ \E i \in DOMAIN kws : i <= 3 /\ kws[i] \in answer.keywords
    THEN [factor |-> 80, issues |-> << >>]
    ELSE [factor |-> 60, issues |-> << >>]

\* QualityValidatorNode.__call__
quality_validator_call(s) ==
  LET answer == IF s.answer_data.type = "missing" \/ ~s.answer_data.has_answer
                THEN Answer(0, {}, {}, {})
                ELSE s.answer_data.answer
      s1 == [s EXCEPT !.current_step = "quality_validation",
                      !.messages = Append(@, "assessing")]
      checks == <<LengthCheck(answer), SourceCheck(answer),
                  RelevanceCheck(s.query_words, answer),
                  AnalysisCheck(s.content_analysis, answer)>>
      quality_factors == [i \in 1..4 |-> checks[i].factor]
      issues == checks[1].issues \o checks[2].issues \o checks[3].issues
                  \o checks[4].issues
      quality_score == Mean(quality_factors)
      validation_passed == /\ ScoreAbove(quality_score, quality_threshold)
                           /\ Len(issues) <= 1
      retry_recommended == ScoreBelow(quality_score, retry_threshold) IN
    IF TooShort(answer)
    THEN [validation_results |->
            [quality_score |-> ZeroScore,
             issues |-> <<"Answer too short or empty">>,
             validation_passed |-> FALSE,
             retry_recommended |-> TRUE],
          quality_score |-> ZeroScore,
          query_words |-> s1.query_words,
          answer_data |-> s1.answer_data,
          content_analysis |-> s1.content_analysis,
          messages |-> s1.messages,
          step_times |-> s1.step_times \cup {"quality_validation"},
          current_step |-> s1.current_step,
          error |-> s1.error]
    ELSE [validation_results |->
            [quality_score |-> quality_score,
             issues |-> issues,
             validation_passed |-> validation_passed,
             retry_recommended |-> retry_recommended,
             source_references |-> source_references(answer),
             relevance_ratio |-> relevance_ratio(s.query_words, answer),
             quality_factors |-> quality_factors],
          quality_score |-> quality_score,
          query_words |-> s1.query_words,
          answer_data |-> s1.answer_data,
          content_analysis |-> s1.content_analysis,
          messages |-> (IF validation_passed
                        THEN Append(s1.messages, "approved")
                        ELSE IF Len(issues) > 0
                        THEN s1.messages \o <<"concerns", "issues">>
                        ELSE Append(s1.messages, "concerns")),
          step_times |-> s1.step_times \cup {"quality_validation"},
          current_step |-> s1.current_step,
          error |-> s1.error]

ValidatorQuiet ==
  /\ qv_in = [query_words |-> {}, answer_data |-> [type |-> "missing"],
              content_analysis |-> [empty |-> TRUE, top_keywords |-> << >>],
              messages |-> << >>, step_times |-> {},
              current_step |-> "answer_synthesis", error |-> "None"]
  /\ qv_state = qv_in
  /\ qv_pc = "ready"

ValidatorInit ==
  /\ qv_in \in ValidatorStates
  /\ qv_state = qv_in
  /\ qv_pc = "ready"

QualityValidatorCall ==
  /\ qv_pc = "ready"
  /\ qv_state' = quality_validator_call(qv_state)
  /\ qv_pc' = "done"
  /\ UNCHANGED qv_in
  /\ UNCHANGED NotValidator

ValidatorNext == QualityValidatorCall

(***************************************************************************)
(* Server startup                                                          *)
(***************************************************************************)

\* What can go wrong while the process starts.
BootEnvs ==
  [migrations_fail : BOOLEAN,   \* init_database() raises
   modules_import : BOOLEAN,    \* import_workflow_modules() succeeds
   config_raises : BOOLEAN,     \* SearchConfig(...) raises
   opensearch_fail : BOOLEAN,   \* _init_opensearch gives up: ConnectionError
   embedding_fail : BOOLEAN,    \* SentenceTransformer(...) raises
   nodes_fail : BOOLEAN,        \* a node constructor raises in _init_nodes
   compile_fail : BOOLEAN]      \* building or compiling the graph raises

\* The process before lifespan() runs: workflow_instance = None.
Booting ==
  [database |-> "unset", search_engine |-> "unset", engine_error |-> "None",
   nodes |-> "unset", compiled |-> FALSE, orchestrator |-> "None",
   health |-> "unasked"]

\* The startup part of a specification that starts no server.
StartupQuiet ==
  /\ boot_env = [migrations_fail |-> FALSE, modules_import |-> TRUE,
                 config_raises |-> FALSE, opensearch_fail |-> FALSE,
                 embedding_fail |-> FALSE, nodes_fail |-> FALSE,
                 compile_fail |-> FALSE]
  /\ boot_pc = "init_database"
  /\ boot = Booting

StartupInit ==
  /\ boot_env \in BootEnvs
  /\ boot_pc = "init_database"
  /\ boot = Booting

\* lifespan: try init_database(), a failure is printed and startup goes on.
InitDatabase ==
  /\ boot_pc = "init_database"
  /\ boot' = [boot EXCEPT !.database =
                IF boot_env.migrations_fail THEN "failed" ELSE "ready"]
  /\ boot_pc' = "import_modules"
  /\ UNCHANGED boot_env
  /\ UNCHANGED NotStartup

\* lifespan: without the workflow modules the server runs in mock mode.
ImportWorkflowModules ==
  /\ boot_pc = "import_modules"
  /\ boot_pc' = IF boot_env.modules_import THEN "config" ELSE "serving"
  /\ UNCHANGED <<boot_env, boot>>
  /\ UNCHANGED NotStartup

\* lifespan: SearchConfig(...) inside the try; a raise leaves
\* workflow_instance None and the server starts.
ConstructConfig ==
  /\ boot_pc = "config"
  /\ boot_pc' = IF boot_env.config_raises THEN "serving" ELSE "search_engine"
  /\ UNCHANGED <<boot_env, boot>>
  /\ UNCHANGED NotStartup

\* HybridSearchWorkflow.__init__: BaseSearchEngine(config) inside its try.
\* BaseSearchEngine.__init__ connects to the index store, then loads the
\* embedding model; either raises out of the constructor, and the except
\* branch sets search_engine = None.
InitSearchEngine ==
  /\ boot_pc = "search_engine"
  /\ boot' =
       IF boot_env.opensearch_fail
       THEN [boot EXCEPT !.search_engine = "None",
                         !.engine_error = "ConnectionError"]
       ELSE IF boot_env.embedding_fail
       THEN [boot EXCEPT !.search_engine = "None",
                         !.engine_error = "embedding model load"]
       ELSE [boot EXCEPT !.search_engine = "ready"]
  /\ boot_pc' = "init_nodes"
  /\ UNCHANGED boot_env
  /\ UNCHANGED NotStartup

\* HybridSearchWorkflow._init_nodes: the real nodes, or mock nodes.
InitNodes ==
  /\ boot_pc = "init_nodes"
  /\ boot' = [boot EXCEPT !.nodes =
                IF boot_env.nodes_fail THEN "mock" ELSE "real"]
  /\ boot_pc' = "build_workflow"
  /\ UNCHANGED boot_env
  /\ UNCHANGED NotStartup

\* HybridSearchWorkflow.__init__: build and compile the graph (app = None on
\* failure); the constructor returns and lifespan stores the instance.
BuildWorkflow ==
  /\ boot_pc = "build_workflow"
  /\ boot' = [boot EXCEPT !.compiled = ~boot_env.compile_fail,
                          !.orchestrator = "constructed"]
  /\ boot_pc' = "serving"
  /\ UNCHANGED boot_env
  /\ UNCHANGED NotStartup

\* GET /health once the server serves.
HealthCheck ==
  /\ boot_pc = "serving"
  /\ boot.health = "unasked"
  /\ boot' = [boot EXCEPT !.health =
                IF boot.orchestrator # "None" THEN "healthy" ELSE "degraded"]
  /\ UNCHANGED <<boot_env, boot_pc>>
  /\ UNCHANGED NotStartup

StartupNext ==
  \/ InitDatabase
  \/ ImportWorkflowModules
  \/ ConstructConfig
  \/ InitSearchEngine
  \/ InitNodes
  \/ BuildWorkflow
  \/ HealthCheck

(***************************************************************************)
(* Evaluation harness: hybrid search                                       *)
(***************************************************************************)
\* The index is represented by the score each searcher computes for each
\* document and the query.  alpha is in tenths (1.0 is 10, 0.5 is 5), so a
\* hybrid score is ten times the float the source computes; the products by
\* 1.0 and 0.0 are exact in floating point as well.

CorpusSize == 3
CorpusIds == 1..CorpusSize
DenseScoreValues == {-3, -1, 4}
SparseScoreValues == {0, 2}
Alphas == {0, 5, 10}
CandidateKs == {2, 3}
HybridKs == {2, 4}

\* The orders in which the members of a set can be listed.
Orderings(S) ==
  {f \in [1..Cardinality(S) -> S] : \A i, j \in DOMAIN f : i # j => f[i] # f[j]}

\* What a searcher returns for k: (doc_idx, score) pairs of the k best
\* documents, best first.  Documents of equal score come in an order the
\* sort does not fix (FAISS result order; np.argsort's default sort is not
\* stable).
TopRankings(scores, k) ==
  LET n == IF k < CorpusSize THEN k ELSE CorpusSize IN
    {[i \in 1..n |-> <<f[i], scores[f[i]]>>] :
       f \in {g \in Orderings(CorpusIds) :
                \A i, j \in 1..CorpusSize : i < j => scores[g[i]] >= scores[g[j]]}}

\* {idx: score for idx, score in results}
ScoreDict(results) ==
  [d \in {results[i][1] : i \in DOMAIN results} |->
     (CHOOSE p \in {results[i] : i \in DOMAIN results} : p[1] = d)[2]]

\* list.sort(key=lambda x: x[1], reverse=True): stable, highest first.
RECURSIVE InsertPair(_, _)
InsertPair(sorted, p) ==
  IF sorted = << >> THEN <<p>>
  ELSE IF Head(sorted)[2] < p[2] THEN <<p>> \o sorted
  ELSE <<Head(sorted)>> \o InsertPair(Tail(sorted), p)

RECURSIVE SortPairsDesc(_)
SortPairsDesc(ps) ==
  IF ps = << >> THEN << >>
  ELSE InsertPair(SortPairsDesc(SubSeq(ps, 1, Len(ps) - 1)), ps[Len(ps)])

\* (alpha * dense_score) + ((1 - alpha) * sparse_score), times ten.
hybrid_score(alpha10, dense_score, sparse_score) ==
  alpha10 * dense_score + (10 - alpha10) * sparse_score

\* HybridSearcher.search after the two searchers returned; ids is the order
\* in which the set all_ids is iterated.
hybrid_search(dense_results, sparse_results, ids, alpha10, k) ==
  LET dense_scores == ScoreDict(dense_results)
      sparse_scores == ScoreDict(sparse_results)
      hybrid_scores ==
        [i \in DOMAIN ids |->
           <<ids[i], hybrid_score(alpha10, Get(dense_scores, ids[i], 0),
                                  Get(sparse_scores, ids[i], 0))>>]
      sorted == SortPairsDesc(hybrid_scores) IN
    IF k >= Len(sorted) THEN sorted ELSE SubSeq(sorted, 1, k)

HybridQuiet ==
  /\ hs_in = [dense |-> [d \in CorpusIds |-> 0],
              sparse |-> [d \in CorpusIds |-> 0],
              alpha |-> 5, candidate_k |-> 2, k |-> 2]
  /\ hs_out = [done |-> FALSE, dense_results |-> << >>,
               sparse_results |-> << >>, results |-> << >>]

HybridInit ==
  /\ hs_in \in [dense : [CorpusIds -> DenseScoreValues],
                sparse : [CorpusIds -> SparseScoreValues],
                alpha : Alphas, candidate_k : CandidateKs, k : HybridKs]
  /\ hs_out = [done |-> FALSE, dense_results |-> << >>,
               sparse_results |-> << >>, results |-> << >>]

\* HybridSearcher.search: both searchers are asked for candidate_k
\* candidates, the scores are fused over the union of the ids, sorted, and
\* cut to k.
HybridSearch ==
  /\ ~hs_out.done
  /\ \E dr \in TopRankings(hs_in.dense, hs_in.candidate_k),
        sr \in TopRankings(hs_in.sparse, hs_in.candidate_k) :
       \E ids \in Orderings({dr[i][1] : i \in DOMAIN dr}
                              \cup {sr[i][1] : i \in DOMAIN sr}) :
         hs_out' = [done |-> TRUE, dense_results |-> dr, sparse_results |-> sr,
                    results |-> hybrid_search(dr, sr, ids, hs_in.alpha, hs_in.k)]
  /\ UNCHANGED hs_in
  /\ UNCHANGED NotHybrid

HybridNext == HybridSearch

(***************************************************************************)
(* Evaluation harness: metrics                                             *)
(***************************************************************************)
\* A dict is a function on its key set.  qrels maps a query id to its set of
\* judged documents (the keys of qrels[qid]), results maps a query id to the
\* retrieved list.  Metric values are exact fractions.

QueryIds == {"q1", "q2"}
JudgedDocs == {"d1", "d2", "d3"}
MaxResultLen == 3

\* cutoff: positive, or None (the default).  The harness uses 10, 100, 1000;
\* 1 and 2 stand for a cutoff shorter than the lists.
Cutoffs == {None, 1, 2, 10}

ResultLists ==
  {r \in UNION {[1..n -> JudgedDocs] : n \in 0..MaxResultLen} :
     \A i, j \in DOMAIN r : i # j => r[i] # r[j]}

QrelsDicts == UNION {[Q -> SUBSET JudgedDocs] : Q \in SUBSET QueryIds}
ResultsDicts == UNION {[Q -> ResultLists] : Q \in SUBSET QueryIds}

\* results[qid][:cutoff] if cutoff else results[qid]
CutTo(list, cutoff) ==
  IF cutoff = None \/ cutoff >= Len(list) THEN list ELSE SubSeq(list, 1, cutoff)

\* The inner loop of compute_mrr: 1.0 / rank of the first listed document
\* that is judged, nothing added when there is none.
RECURSIVE FirstHit(_, _, _)
FirstHit(list, relevant_docs, rank) ==
  IF rank > Len(list) THEN Frac(0, 1)
  ELSE IF list[rank] \in relevant_docs THEN Frac(1, rank)
  ELSE FirstHit(list, relevant_docs, rank + 1)

\* The loop over qrels of compute_mrr: [rr_sum, query_count] after the
\* query ids in todo.
RECURSIVE MrrLoop(_, _, _, _)
MrrLoop(todo, qrels, results, cutoff) ==
  IF todo = {} THEN [rr_sum |-> Frac(0, 1), query_count |-> 0]
  ELSE
    LET qid == CHOOSE q \in todo : TRUE
        rest == MrrLoop(todo \ {qid}, qrels, results, cutoff) IN
      IF qid \notin DOMAIN results THEN rest
      ELSE [rr_sum |-> FAdd(rest.rr_sum,
                            FirstHit(CutTo(results[qid], cutoff), qrels[qid], 1)),
            query_count |-> rest.query_count + 1]

\* A mean over every judged query, with or without a result list.
compute_mrr_OverAllQrels(qrels, results, cutoff) ==
  LET acc == MrrLoop(DOMAIN qrels, qrels, results, cutoff)
      n == Cardinality(DOMAIN qrels) IN
    IF n > 0 THEN FMul(acc.rr_sum, Frac(1, n)) ELSE Frac(0, 1)

compute_mrr(qrels, results, cutoff) ==
  LET acc == MrrLoop(DOMAIN qrels, qrels, results, cutoff) IN
    IF acc.query_count > 0
    THEN FMul(acc.rr_sum, Frac(1, acc.query_count))
    ELSE Frac(0, 1)

\* The loop over qrels of compute_recall.
RECURSIVE RecallLoop(_, _, _, _)
RecallLoop(todo, qrels, results, cutoff) ==
  IF todo = {} THEN [recall_sum |-> Frac(0, 1), query_count |-> 0]
  ELSE
    LET qid == CHOOSE q \in todo : TRUE
        rest == RecallLoop(todo \ {qid}, qrels, results, cutoff)
        cut == CutTo(results[qid], cutoff)
        relevant_docs == qrels[qid]
        retrieved_docs == {cut[i] : i \in DOMAIN cut} IN
      IF qid \notin DOMAIN results THEN rest
      ELSE [recall_sum |->
              IF Cardinality(relevant_docs) > 0
              THEN FAdd(rest.recall_sum,
                        Frac(Cardinality(relevant_docs \cap retrieved_docs),
                             Cardinality(relevant_docs)))
              ELSE rest.recall_sum,
            query_count |-> rest.query_count + 1]

compute_recall(qrels, results, cutoff) ==
  LET acc == RecallLoop(DOMAIN qrels, qrels, results, cutoff) IN
    IF acc.query_count > 0
    THEN FMul(acc.recall_sum, Frac(1, acc.query_count))
    ELSE Frac(0, 1)

MetricsQuiet ==
  /\ met_in = [qrels |-> << >>, results |-> << >>, cutoff |-> None]
  /\ met_out = [op |-> "none", value |-> Frac(0, 1)]

MetricsInit ==
  /\ met_in \in [qrels : QrelsDicts, results : ResultsDicts, cutoff : Cutoffs]
  /\ met_out = [op |-> "none", value |-> Frac(0, 1)]

ComputeMrr ==
  /\ met_out.op = "none"
  /\ met_out' = [op |-> "mrr",
                 value |-> compute_mrr(met_in.qrels, met_in.results,
                                       met_in.cutoff)]
  /\ UNCHANGED met_in
  /\ UNCHANGED NotMetrics

ComputeRecall ==
  /\ met_out.op = "none"
  /\ met_out' = [op |-> "recall",
                 value |-> compute_recall(met_in.qrels, met_in.results,
                                          met_in.cutoff)]
  /\ UNCHANGED met_in
  /\ UNCHANGED NotMetrics

MetricsNext == ComputeMrr \/ ComputeRecall

(***************************************************************************)
(* Evaluation harness: BM25                                                *)
(***************************************************************************)
\* Numbers are exact fractions.  An idf is np.log of a positive fraction and
\* is kept as that fraction (its log is positive exactly when the fraction
\* exceeds 1).  A score is kept as the sequence of the terms get_scores adds:
\* each [idf, tf] stands for log(idf) * tf.

BM25Terms == {"the", "cat"}
BM25QueryTerms == {"the", "cat", "dog"}
MaxDocs == 2
MaxDocLen == 2
MaxQueryLen == 2

ExampleCorpus ==
  << <<"the", "cat", "sat">>, <<"the", "cat", "sat", "on", "the", "mat">> >>

TokenizedDocs == UNION {[1..n -> BM25Terms] : n \in 0..MaxDocLen}

Corpora ==
  UNION {[1..n -> TokenizedDocs] : n \in 1..MaxDocs} \cup {ExampleCorpus}

BM25Queries == UNION {[1..n -> BM25QueryTerms] : n \in 0..MaxQueryLen}

\* CONFIG.BM25_K1 = 1.5, CONFIG.BM25_B = 0.75
bm25_k1 == Frac(3, 2)
bm25_b == Frac(3, 4)

\* term_freqs of one document: term |-> number of occurrences.
TermFreqs(doc) ==
  [t \in {doc[i] : i \in DOMAIN doc} |->
     Cardinality({i \in DOMAIN doc : doc[i] = t})]

RECURSIVE SumLens(_)
SumLens(corpus) ==
  IF corpus = << >> THEN 0 ELSE Len(Head(corpus)) + SumLens(Tail(corpus))

\* df as fit counts it: df[term] += 1 once per token of every document.
RECURSIVE TokenCount(_, _)
TokenCount(corpus, term) ==
  IF corpus = << >> THEN 0
  ELSE Get(TermFreqs(Head(corpus)), term, 0) + TokenCount(Tail(corpus), term)

\* The argument of np.log in fit:
\* (corpus_size - freq + 0.5) / (freq + 0.5) + 1.0 = (corpus_size + 1) / (freq + 0.5)
IdfArgument(corpus_size, freq) == Frac(2 * corpus_size + 2, 2 * freq + 1)

\* BM25.fit
fit(corpus) ==
  LET terms == UNION {{corpus[d][i] : i \in DOMAIN corpus[d]} : d \in DOMAIN corpus} IN
    [fitted |-> TRUE,
     corpus_size |-> Len(corpus),
     doc_lens |-> [d \in DOMAIN corpus |-> Len(corpus[d])],
     avg_doc_len |-> IF Len(corpus) > 0 THEN Frac(SumLens(corpus), Len(corpus))
                     ELSE Frac(0, 1),
     doc_term_freqs |-> [d \in DOMAIN corpus |-> TermFreqs(corpus[d])],
     idf |-> [t \in terms |-> IdfArgument(Len(corpus), TokenCount(corpus, t))]]

\* numerator / denominator of get_scores for one term in one document:
\* freq * (k1 + 1) / (freq + k1 * (1 - b + b * doc_len / avg_doc_len))
TfFactor(freq, doc_len, avg_doc_len) ==
  LET one_minus_b == Frac(bm25_b.den - bm25_b.num, bm25_b.den)
      ratio == Frac(doc_len * avg_doc_len.den, avg_doc_len.num)
      norm == FAdd(one_minus_b, FMul(bm25_b, ratio))
      denominator == FAdd(Frac(freq, 1), FMul(bm25_k1, norm))
      numerator == FMul(Frac(freq, 1), FAdd(bm25_k1, Frac(1, 1))) IN
    FMul(numerator, Frac(denominator.den, denominator.num))

\* What the loop over the query adds to scores[idx], in order.
RECURSIVE ScoreTerms(_, _, _)
ScoreTerms(model, query, idx) ==
  IF query = << >> THEN << >>
  ELSE
    LET term == Head(query)
        rest == ScoreTerms(model, Tail(query), idx) IN
      IF term \notin DOMAIN model.idf THEN rest
      ELSE IF term \notin DOMAIN model.doc_term_freqs[idx] THEN rest
      ELSE <<[idf |-> model.idf[term],
              tf |-> TfFactor(model.doc_term_freqs[idx][term],
                              model.doc_lens[idx], model.avg_doc_len)]>> \o rest

\* BM25.get_scores
get_scores(model, query) ==
  [idx \in 1..model.corpus_size |-> ScoreTerms(model, query, idx)]

\* BM25.__init__
Unfitted ==
  [fitted |-> FALSE, corpus_size |-> 0, doc_lens |-> << >>,
   avg_doc_len |-> Frac(0, 1), doc_term_freqs |-> << >>, idf |-> << >>]

BM25Quiet ==
  /\ bm_in = [corpus |-> << <<"the">> >>, query |-> << >>]
  /\ bm25 = Unfitted
  /\ bm_out = [done |-> FALSE, scores |-> << >>]

BM25Init ==
  /\ bm_in \in [corpus : Corpora, query : BM25Queries \cup {<<"sat">>}]
  /\ bm25 = Unfitted
  /\ bm_out = [done |-> FALSE, scores |-> << >>]

\* SparseIndexer.build_index: bm25.fit(tokenized_docs)
Fit ==
  /\ ~bm25.fitted
  /\ bm25' = fit(bm_in.corpus)
  /\ UNCHANGED <<bm_in, bm_out>>
  /\ UNCHANGED NotBM25

\* SparseSearcher.search: bm25.get_scores(query_tokens)
GetScores ==
  /\ bm25.fitted
  /\ ~bm_out.done
  /\ bm_out' = [done |-> TRUE, scores |-> get_scores(bm25, bm_in.query)]
  /\ UNCHANGED <<bm_in, bm25>>
  /\ UNCHANGED NotBM25

BM25Next == Fit \/ GetScores

(***************************************************************************)
(* Serialization normalizer                                                *)
(***************************************************************************)
\* A value is [t, keys, items]: t names its Python type, items holds the
\* members of a container in order (none for a scalar), keys the keys of a
\* dict.  A scalar is represented by its type alone.  An array of a numeric
\* dtype holds NumPy scalars of that dtype; an array of dtype object holds
\* arbitrary Python objects.

Scalar(t) == [t |-> t, keys |-> << >>, items |-> << >>]
Container(t, keys, items) == [t |-> t, keys |-> keys, items |-> items]

NumpyScalars == {Scalar("np.float64"), Scalar("np.int64"), Scalar("np.bool_")}
PlainScalars == {Scalar("float"), Scalar("int"), Scalar("bool")}
ScalarValues == NumpyScalars \cup PlainScalars

\* Lengths of the containers drawn.
InnerLens == {0, 1, 2}
OuterLens == {1, 2}

\* Arrays of dtype float64, int64 and bool.
NumericArrays ==
  {Container("ndarray", << >>, [i \in 1..n |-> s]) :
     n \in OuterLens, s \in NumpyScalars}

\* Lists, tuples, single-key dicts and object arrays over the members ms.
Lists(ms, lens) ==
  {Container("list", << >>, items) : items \in UNION {[1..n -> ms] : n \in lens}}

Dicts(ms) ==
  {Container("dict", << >>, << >>)}
  \cup {Container("dict", <<"k">>, <<m>>) : m \in ms}

Tuples(ms) == {Container("tuple", << >>, <<m>>) : m \in ms}

ObjectArrays(ms) == {Container("ndarray:object", << >>, <<m>>) : m \in ms}

FlatValues ==
  ScalarValues \cup NumericArrays \cup Lists(ScalarValues, InnerLens)
    \cup Dicts(ScalarValues) \cup Tuples(ScalarValues)
    \cup ObjectArrays(ScalarValues)

NestedValues ==
  FlatValues \cup Lists(FlatValues, OuterLens) \cup Dicts(FlatValues)
    \cup ObjectArrays(FlatValues)

\* int(obj), float(obj), bool(obj); also what ndarray.tolist() makes of an
\* item of a numeric array.
Plain(v) ==
  CASE v.t = "np.float64" -> Scalar("float")
    [] v.t = "np.int64" -> Scalar("int")
    [] v.t = "np.bool_" -> Scalar("bool")
    [] OTHER -> v

\* ndarray.tolist(): the items of a numeric array become plain scalars, the
\* items of an object array are returned as they are.
tolist(v) ==
  IF v.t = "ndarray"
  THEN Container("list", << >>, [i \in DOMAIN v.items |-> Plain(v.items[i])])
  ELSE Container("list", << >>, v.items)

RECURSIVE convert_numpy_values(_)
convert_numpy_values(obj) ==
  CASE obj.t \in {"np.int64", "np.float64", "np.bool_"} -> Plain(obj)
    [] obj.t \in {"ndarray", "ndarray:object"} -> tolist(obj)
    [] obj.t \in {"dict", "list"} ->
         Container(obj.t, obj.keys,
                   [i \in DOMAIN obj.items |-> convert_numpy_values(obj.items[i])])
    [] OTHER -> obj

ConvertQuiet ==
  /\ cv_in = Scalar("float")
  /\ cv_out = [applied |-> 0, once |-> Scalar("float"), twice |-> Scalar("float")]

ConvertInit ==
  /\ cv_in \in NestedValues
  /\ cv_out = [applied |-> 0, once |-> Scalar("float"), twice |-> Scalar("float")]

\* convert_numpy_values(obj)
ConvertOnce ==
  /\ cv_out.applied = 0
  /\ cv_out' = [cv_out EXCEPT !.applied = 1,
                              !.once = convert_numpy_values(cv_in)]
  /\ UNCHANGED cv_in
  /\ UNCHANGED NotConvert

\* convert_numpy_values(convert_numpy_values(obj))
ConvertAgain ==
  /\ cv_out.applied = 1
  /\ cv_out' = [cv_out EXCEPT !.applied = 2,
                              !.twice = convert_numpy_values(cv_out.once)]
  /\ UNCHANGED cv_in
  /\ UNCHANGED NotConvert

ConvertNext == ConvertOnce \/ ConvertAgain

(***************************************************************************)
(* Request defaults: endpoint, initial state, coordinator, retriever       *)
(***************************************************************************)
\* Settings.default_search_method and Settings.default_num_results
default_search_method == "multi_stage"
default_num_results == 5

\* An Optional[str] field left out of the request is None.
NoMethod == "None"
RequestMethods == {NoMethod, "auto", "vector", "bm25", "multi_stage"}
RequestSizes == {None, 1, 5, 100}

\* The index answers a query with up to MaxIndexHits hits per ranking; the
\* BM25 ranking holds the same documents as the vector ranking (first = 0)
\* or other documents.
MaxIndexHits == 4
IndexHits(first, n) == [i \in 1..n |-> ScoredHit(first + i, 20 - i)]
BM25Firsts == {0, 100}

PipelineInputs ==
  [search_method : RequestMethods, num_results : RequestSizes,
   digits : BOOLEAN, words : {2, 11},
   vector_hits : 0..MaxIndexHits, bm25_hits : 0..MaxIndexHits,
   bm25_first : BM25Firsts]

\* kwargs.get(key, default): the default only when the key is absent.
KwargsGet(kwargs, key, default) ==
  IF key \in DOMAIN kwargs THEN kwargs[key] ELSE default

\* The keyword arguments search_post passes to workflow_instance.run: both
\* request fields, whatever they hold.
RunKwargs(request) ==
  [search_method |-> [v |-> request.search_method],
   num_results |-> [v |-> request.num_results]]

\* The search_method and num_results entries of the initial state.
PipelineInitialState(kwargs) ==
  [search_method |->
     KwargsGet(kwargs, "search_method", [v |-> default_search_method]).v,
   num_results |->
     KwargsGet(kwargs, "num_results", [v |-> default_num_results]).v,
   search_results |-> << >>,
   error |-> "None"]

\* vector_search / bm25_search with a size: the best size hits.  A size of
\* None goes to the index as it is; what the index does with it is the
\* index's choice (reject the request, or answer with the hits it has).
EngineSearch(ranking, size) ==
  IF size = None THEN {[raised |-> TRUE, found |-> << >>],
                       [raised |-> FALSE, found |-> ranking]}
  ELSE {[raised |-> FALSE,
         found |-> IF size >= Len(ranking) THEN ranking
                   ELSE SubSeq(ranking, 1, size)]}

PipelineQuiet ==
  /\ pl_in = [search_method |-> NoMethod, num_results |-> None,
              digits |-> FALSE, words |-> 2,
              vector_hits |-> 0, bm25_hits |-> 0, bm25_first |-> 0]
  /\ pl_state = PipelineInitialState(<< >>)
  /\ pl_pc = "done"

PipelineInit ==
  /\ pl_in \in PipelineInputs
  /\ pl_state = PipelineInitialState(<< >>)
  /\ pl_pc = "request"

\* search_post -> workflow_instance.run -> initial state
PipelineRun ==
  /\ pl_pc = "request"
  /\ pl_state' = PipelineInitialState(RunKwargs(pl_in))
  /\ pl_pc' = "coordinator"
  /\ UNCHANGED pl_in
  /\ UNCHANGED NotPipeline

\* CoordinatorNode.__call__: replaces the method only when it is "auto".
PipelineCoordinator ==
  /\ pl_pc = "coordinator"
  /\ LET recommended ==
           recommended_method(Query(pl_in.words, pl_in.digits)) IN
       pl_state' = [pl_state EXCEPT !.search_method =
                      IF @ = "auto" THEN recommended ELSE @]
  /\ pl_pc' = "retriever"
  /\ UNCHANGED pl_in
  /\ UNCHANGED NotPipeline

\* RetrieverNode.__call__
PipelineRetriever ==
  /\ pl_pc = "retriever"
  /\ LET vector_results == IndexHits(0, pl_in.vector_hits)
         bm25_results == IndexHits(pl_in.bm25_first, pl_in.bm25_hits) IN
       \E answer \in
            IF pl_state.search_method = "vector"
            THEN EngineSearch(vector_results, pl_state.num_results)
            ELSE IF pl_state.search_method = "bm25"
            THEN EngineSearch(bm25_results, pl_state.num_results)
            ELSE {[raised |-> FALSE,
                   found |-> multi_stage_search(vector_results, bm25_results,
                                                pl_state.num_results)]} :
         pl_state' = [pl_state EXCEPT
                        !.search_results = answer.found,
                        !.error = IF answer.raised THEN "Search error"
                                  ELSE IF Len(answer.found) = 0
                                  THEN "No search results found"
                                  ELSE @]
  /\ pl_pc' = "done"
  /\ UNCHANGED pl_in
  /\ UNCHANGED NotPipeline

PipelineNext == PipelineRun \/ PipelineCoordinator \/ PipelineRetriever

(***************************************************************************)
(* Schema migrations at startup                                            *)
(***************************************************************************)
\* Revision identifiers; NoRevision when no version is recorded.
NoRevision == "none"
Revision0001 == "0001_initial_users_sessions"
Revision0002 == "0002_add_chat_tables"

ModelTables == {"users", "user_sessions", "chat_sessions", "chat_messages"}
VersionTable == "alembic_version"

\* op.create_table calls of each revision's upgrade(), in order, with the
\* tables their foreign keys reference.
CreateTable(name, refs) == [table |-> name, references |-> refs]

Upgrade0001 ==
  <<CreateTable("users", {}),
    CreateTable("user_sessions", {"users"})>>

Upgrade0002 ==
  <<CreateTable("chat_sessions", {"users"}),
    CreateTable("chat_messages", {"chat_sessions", "users"})>>

UpgradeOps(revision) ==
  IF revision = Revision0001 THEN Upgrade0001 ELSE Upgrade0002

\* The revisions an upgrade to head still has to apply.
Pending(version) ==
  IF version = NoRevision THEN <<Revision0001, Revision0002>>
  ELSE IF version = Revision0001 THEN <<Revision0002>>
  ELSE << >>

\* A schema: [tables, version].  A version is recorded only in the version
\* table.
Schema(tables, version) == [tables |-> tables, version |-> version]

\* The schemas a startup may find: any of the four tables, with no version
\* table, or with a version table whose revision's tables are there.
InitialSchemas ==
  {Schema(ts, NoRevision) : ts \in SUBSET ModelTables}
  \cup {Schema(ts \cup {VersionTable, "users", "user_sessions"}, Revision0001) :
          ts \in SUBSET {"chat_sessions", "chat_messages"}}
  \cup {Schema(ModelTables \cup {VersionTable}, Revision0002)}

\* How the environment behaves: whether alembic imports, whether the stamp
\* raises, whether the database checks foreign-key targets at table
\* creation, and whether a failed upgrade is rolled back.
MigrationEnvs ==
  [alembic : BOOLEAN, stamp_raises : BOOLEAN, checks_references : BOOLEAN,
   rolls_back : BOOLEAN]

\* The create_table calls of ops, from the first on; stops at the first one
\* that raises (the table exists, or a referenced table does not).
RECURSIVE RunOps(_, _, _)
RunOps(tables, ops, env) ==
  IF ops = << >> THEN [tables |-> tables, raised |-> FALSE]
  ELSE
    LET op == Head(ops) IN
      IF \/ op.table \in tables
         \/ env.checks_references /\ ~(op.references \subseteq tables)
      THEN [tables |-> tables, raised |-> TRUE]
      ELSE RunOps(tables \cup {op.table}, Tail(ops), env)

\* alembic_command.upgrade(cfg, "head"): applies the pending revisions in
\* order and records each when its upgrade() has run.
RECURSIVE RunRevisions(_, _, _)
RunRevisions(db, revisions, env) ==
  IF revisions = << >> THEN [db |-> db, raised |-> FALSE]
  ELSE
    LET ran == RunOps(db.tables, UpgradeOps(Head(revisions)), env) IN
      IF ran.raised
      THEN [db |-> Schema(ran.tables, db.version), raised |-> TRUE]
      ELSE RunRevisions(Schema(ran.tables, Head(revisions)),
                        Tail(revisions), env)

upgrade(db, env) ==
  LET ran == RunRevisions(Schema(db.tables \cup {VersionTable}, db.version),
                          Pending(db.version), env) IN
    IF ran.raised /\ env.rolls_back THEN [db |-> db, raised |-> TRUE]
    ELSE ran

\* alembic_command.stamp(cfg, "0001_initial_users_sessions")
stamp(db) == Schema(db.tables \cup {VersionTable}, Revision0001)

\* Base.metadata.create_all(bind=engine): creates the tables of the data
\* model that are not there; records no version.
create_all(db) == Schema(db.tables \cup ModelTables, db.version)

\* The baseline test of _run_alembic_upgrade.
has_alembic_table(db) == VersionTable \in db.tables

NeedsStamp(db) ==
  /\ ~has_alembic_table(db)
  /\ ("users" \in db.tables \/ "user_sessions" \in db.tables)

\* _run_alembic_upgrade: [db, raised, stamped].
run_alembic_upgrade(db, env) ==
  IF ~env.alembic
  THEN [db |-> create_all(db), raised |-> FALSE, stamped |-> FALSE]
  ELSE
    LET stamps == NeedsStamp(db) /\ ~env.stamp_raises
        stamped == IF stamps THEN stamp(db) ELSE db
        upgraded == upgrade(stamped, env) IN
      [db |-> upgraded.db, raised |-> upgraded.raised, stamped |-> stamps]

MigrationQuiet ==
  /\ mg_in = [db |-> Schema({}, NoRevision),
              env |-> [alembic |-> TRUE, stamp_raises |-> FALSE,
                       checks_references |-> TRUE, rolls_back |-> TRUE]]
  /\ mg_db = Schema({}, NoRevision)
  /\ mg_pc = "done"
  /\ mg_log = [stamped |-> FALSE, fell_back |-> FALSE]

MigrationInit ==
  /\ mg_in \in [db : InitialSchemas, env : MigrationEnvs]
  /\ mg_db = mg_in.db
  /\ mg_pc = "start"
  /\ mg_log = [stamped |-> FALSE, fell_back |-> FALSE]

\* init_database, the try block: _run_alembic_upgrade()
RunAlembicUpgrade ==
  /\ mg_pc = "start"
  /\ LET ran == run_alembic_upgrade(mg_db, mg_in.env) IN
       /\ mg_db' = ran.db
       /\ mg_pc' = IF ran.raised THEN "raised" ELSE "done"
       /\ mg_log' = [mg_log EXCEPT !.stamped = ran.stamped]
  /\ UNCHANGED mg_in
  /\ UNCHANGED NotMigration

\* init_database, the except block: Base.metadata.create_all
CreateAllFallback ==
  /\ mg_pc = "raised"
  /\ mg_db' = create_all(mg_db)
  /\ mg_pc' = "done"
  /\ mg_log' = [mg_log EXCEPT !.fell_back = TRUE]
  /\ UNCHANGED mg_in
  /\ UNCHANGED NotMigration

MigrationNext == RunAlembicUpgrade \/ CreateAllFallback

(***************************************************************************)
(* Evaluation harness: load, index, evaluate                               *)
(***************************************************************************)
\* The collection is a list of passages [id, text]; a text is its list of
\* whitespace-separated words.  Both sources and the cache hold the same
\* collection.  Positions are counted from 0, as enumerate() does.

MaxCollection == 2
CollectionIds == {"0", "1", "7"}
RawWords == {"The", "a", "cat"}
Texts == {<< >>, <<"The", "a", "cat">>}
EvalQuery == "q1"

Passage(doc_id, text) == [id |-> doc_id, text |-> text]

Collections ==
  {c \in UNION {[1..n -> {Passage(d, t) : d \in CollectionIds, t \in Texts}] :
                  n \in 0..MaxCollection} :
     \A i, j \in DOMAIN c : i # j => c[i].id # c[j].id}

\* The state of the cache files and of the primary source.
CacheStates == {"absent", "good", "documents_unreadable", "queries_unreadable"}
PrimaryStates == {"ok", "raises_at_start", "raises_after_one", "raises_in_queries"}

\* str(i) of a position.
Decimal == <<"0", "1", "2", "3", "4", "5", "6", "7", "8", "9">>
StrOf(i) == Decimal[i + 1]

\* text.lower() of a word, and len(token).
Lower(word) == IF word = "The" THEN "the" ELSE word
TokenLen(token) == IF token = "a" THEN 1 ELSE 3

\* preprocess_text: lower-cased words of 2 to 20 characters.
preprocess_text(text) ==
  SelectSeq([i \in DOMAIN text |-> Lower(text[i])],
            LAMBDA token : TokenLen(token) >= 2 /\ TokenLen(token) <= 20)

\* MSMarcoDataLoader.__init__
NewLoader ==
  [documents |-> << >>, doc_ids |-> << >>, doc_id_to_index |-> << >>,
   tokenized_docs |-> << >>, dev_queries |-> {}, qrels |-> {},
   cache_written |-> FALSE]

\* The document loop of _load_with_hf_datasets / _load_with_ir_datasets
\* over the first count passages: append the text, append the id, and set
\* doc_id_to_index[id] to the passage's number in this source.
RECURSIVE LoadDocuments(_, _, _)
LoadDocuments(loader, collection, count) ==
  IF count = 0 THEN loader
  ELSE
    LET before == LoadDocuments(loader, collection, count - 1)
        doc == collection[count] IN
      [before EXCEPT !.documents = Append(@, doc.text),
                     !.doc_ids = Append(@, doc.id),
                     !.doc_id_to_index = Put(@, doc.id, count - 1)]

\* The query loops: dev_queries and qrels of the one query.
LoadQueries(loader, relevant) ==
  [loader EXCEPT !.dev_queries = {EvalQuery}, !.qrels = relevant]

\* _load_with_hf_datasets: [loader, raised]
load_with_hf_datasets(loader, input) ==
  LET n == Len(input.collection) IN
    CASE input.primary = "raises_at_start" ->
           [loader |-> loader, raised |-> TRUE]
      [] input.primary = "raises_after_one" ->
           [loader |-> LoadDocuments(loader, input.collection,
                                     IF n > 0 THEN 1 ELSE 0),
            raised |-> TRUE]
      [] input.primary = "raises_in_queries" ->
           [loader |-> LoadDocuments(loader, input.collection, n),
            raised |-> TRUE]
      [] OTHER ->
           [loader |-> LoadQueries(LoadDocuments(loader, input.collection, n),
                                   input.relevant),
            raised |-> FALSE]

\* _load_with_ir_datasets
load_with_ir_datasets(loader, input) ==
  LoadQueries(LoadDocuments(loader, input.collection, Len(input.collection)),
              input.relevant)

\* What an earlier run stored in documents.pkl.
CachedDocuments(input) ==
  LoadDocuments(NewLoader, input.collection, Len(input.collection))

\* _load_cached_data: [loader, loaded]
load_cached_data(loader, input) ==
  LET docs_data == CachedDocuments(input)
      with_documents ==
        [loader EXCEPT !.documents = docs_data.documents,
                       !.doc_ids = docs_data.doc_ids,
                       !.doc_id_to_index = docs_data.doc_id_to_index] IN
    CASE input.cache = "absent" -> [loader |-> loader, loaded |-> FALSE]
      [] input.cache = "documents_unreadable" ->
           [loader |-> loader, loaded |-> FALSE]
      [] input.cache = "queries_unreadable" ->
           [loader |-> with_documents, loaded |-> FALSE]
      [] OTHER ->
           [loader |-> LoadQueries(with_documents, input.relevant),
            loaded |-> TRUE]

\* _save_all_data
save_all_data(loader) == [loader EXCEPT !.cache_written = TRUE]

\* load_full_msmarco_data
load_full_msmarco_data(loader, input) ==
  LET cached == load_cached_data(loader, input) IN
    IF cached.loaded THEN cached.loader
    ELSE
      LET primary == load_with_hf_datasets(cached.loader, input) IN
        save_all_data(IF primary.raised
                      THEN load_with_ir_datasets(primary.loader, input)
                      ELSE primary.loader)

\* DenseSearcher.search: (doc_idx, score) over the positions of the dense
\* index, best first; the model's choice of best document is free.
DenseResults(size, best) ==
  [i \in 1..size |-> <<(best + i - 1) % size, 2 * (size - i) + 2>>]

\* SparseSearcher.search: positions of the BM25 corpus, best first.
SparseResults(size, best) ==
  [i \in 1..size |-> <<(best + i - 1) % size, 2 * (size - i) + 1>>]

HYBRID_K == 100
HYBRID_ALPHA == 5

EvalInputs ==
  {input \in [collection : Collections, cache : CacheStates,
              primary : PrimaryStates, relevant : SUBSET CollectionIds] :
     input.relevant \subseteq
       {input.collection[i].id : i \in DOMAIN input.collection}}

EvalQuiet ==
  /\ er_in = [collection |-> << >>, cache |-> "absent", primary |-> "ok",
              relevant |-> {}]
  /\ er = [loader |-> NewLoader, dense_size |-> 0, corpus_size |-> 0,
           retrieved |-> << >>, results |-> << >>]
  /\ er_pc = "evaluated"

EvalInit ==
  /\ er_in \in EvalInputs
  /\ er = [loader |-> NewLoader, dense_size |-> 0, corpus_size |-> 0,
           retrieved |-> << >>, results |-> << >>]
  /\ er_pc = "start"

\* main: data_loader.load_full_msmarco_data()
LoadFullMsmarcoData ==
  /\ er_pc = "start"
  /\ er' = [er EXCEPT !.loader = load_full_msmarco_data(@, er_in)]
  /\ er_pc' = "loaded"
  /\ UNCHANGED er_in
  /\ UNCHANGED NotEval

\* main: dense_indexer.build_index(data_loader.documents);
\* sparse_indexer.build_index(data_loader.tokenized_docs)
BuildIndices ==
  /\ er_pc = "loaded"
  /\ er' = [er EXCEPT !.dense_size = Len(er.loader.documents),
                      !.corpus_size = fit(er.loader.tokenized_docs).corpus_size]
  /\ er_pc' = "indexed"
  /\ UNCHANGED er_in
  /\ UNCHANGED NotEval

\* MSMarcoEvaluator.evaluate, the loop body for the query: hybrid search,
\* then results[qid] = [str(doc_id) for doc_id, _ in search_results].
Evaluate ==
  /\ er_pc = "indexed"
  /\ \E dense_best \in 0..(IF er.dense_size = 0 THEN 0 ELSE er.dense_size - 1),
        sparse_best \in 0..(IF er.corpus_size = 0 THEN 0 ELSE er.corpus_size - 1) :
       LET dense_results == DenseResults(er.dense_size, dense_best)
           sparse_results == SparseResults(er.corpus_size, sparse_best)
           size == IF er.dense_size > er.corpus_size THEN er.dense_size
                   ELSE er.corpus_size
           all_ids == [i \in 1..size |-> i - 1]
           search_results == hybrid_search(dense_results, sparse_results,
                                           all_ids, HYBRID_ALPHA, HYBRID_K) IN
         er' = [er EXCEPT
                  !.retrieved = [i \in DOMAIN search_results |->
                                   search_results[i][1]],
                  !.results = [i \in DOMAIN search_results |->
                                 StrOf(search_results[i][1])]]
  /\ er_pc' = "evaluated"
  /\ UNCHANGED er_in
  /\ UNCHANGED NotEval

EvalNext == LoadFullMsmarcoData \/ BuildIndices \/ Evaluate

(***************************************************************************)
(* Concurrent search requests                                              *)
(***************************************************************************)
\* Two search_post handlers run for the same user.  Each commit of the chat
\* service is one step; between the steps of one handler the other handler
\* may take steps.  The chat tables start with one session (id 1), so both
\* requests can name the same session.

HandlerIds == {"r1", "r2"}
RequestedSessions == {None, 1, 2}
DbArguments == {"session", "Depends"}

\* request.query and the orchestrator's answer, per request.
QueryOf(r) == [text |-> IF r = "r1" THEN "q1" ELSE "q2", length |-> 2]
AnswerOf(r) == IF r = "r1" THEN "a1" ELSE "a2"

OneSession ==
  [sessions |-> {[id |-> 1, user_id |-> 1, title |-> Title(QueryOf("r1"))]},
   messages |-> {}, sseq |-> 1, mseq |-> 0, log |-> << >>]

\* A handler that has not started.
NewHandler(chat_session_id, db) ==
  [pc |-> "start", chat_session_id |-> chat_session_id, db |-> db,
   session_id |-> None, user_message |-> None, assistant_message |-> None,
   invoked |-> FALSE, user_saved_at_invoke |-> FALSE, outcome |-> "none",
   status |-> None, method |-> "none", response_session |-> None]

\* A truthiness test that also takes the empty answer.
HasAnswerText_AnyResult(outcome) == outcome \in {"ok", "malformed", "empty_answer"}

\* if answer_text: the result carries a non-empty answer.
HasAnswerText(outcome) == outcome \in {"ok", "malformed"}

\* The handler's end: the response it returns.
Responded(h, status, method) ==
  [h EXCEPT !.pc = "done", !.status = status, !.method = method,
            !.response_session = IF status = 200 THEN h.session_id ELSE None]

ConcurrentQuiet ==
  /\ sq_store = OneSession
  /\ sq_workflow = "none"
  /\ sq_req = [r \in HandlerIds |->
                 [NewHandler(None, "session") EXCEPT !.pc = "done"]]

ConcurrentInit ==
  /\ sq_store = OneSession
  /\ sq_workflow \in {"ready", "incomplete", "none"}
  /\ \E sessions \in [HandlerIds -> RequestedSessions],
        dbs \in [HandlerIds -> DbArguments] :
       sq_req = [r \in HandlerIds |-> NewHandler(sessions[r], dbs[r])]

\* search_post, "Ensure chat session": create_session commits a new row when
\* the request names none; with the unresolved Depends object as db the call
\* raises and the request ends in a 500.
EnsureChatSession(r) ==
  /\ sq_req[r].pc = "start"
  /\ LET h == sq_req[r] IN
       IF h.chat_session_id # None
       THEN /\ sq_req' = [sq_req EXCEPT ![r] =
                            [h EXCEPT !.pc = "user_message",
                                      !.session_id = h.chat_session_id]]
            /\ UNCHANGED sq_store
       ELSE IF h.db # "session"
       THEN /\ sq_req' = [sq_req EXCEPT ![r] = Responded(h, 500, "none")]
            /\ UNCHANGED sq_store
       ELSE LET created == create_session(sq_store, 1, Title(QueryOf(r))) IN
              /\ sq_store' = created
              /\ sq_req' = [sq_req EXCEPT ![r] =
                              [h EXCEPT !.pc = "user_message",
                                        !.session_id = created.sseq]]
  /\ UNCHANGED sq_workflow
  /\ UNCHANGED NotConcurrent

\* search_post, "Persist the user message": add_message commits the row, or
\* raises and the exception is swallowed.
PersistUserMessage(r) ==
  /\ sq_req[r].pc = "user_message"
  /\ \E fault \in BOOLEAN :
       LET h == sq_req[r] IN
         IF InsertSucceeds(sq_store, h.db, fault, h.session_id)
         THEN /\ sq_store' = add_message(sq_store, h.session_id, "user",
                                         QueryOf(r).text, 1)
              /\ sq_req' = [sq_req EXCEPT ![r] =
                              [h EXCEPT !.pc = "dispatch",
                                        !.user_message = NextMessageId(sq_store)]]
         ELSE /\ sq_req' = [sq_req EXCEPT ![r] = [h EXCEPT !.pc = "dispatch"]]
              /\ UNCHANGED sq_store
  /\ UNCHANGED sq_workflow
  /\ UNCHANGED NotConcurrent

\* search_post: the two mock-mode returns, else workflow_instance.run(...)
\* is called.
InvokeOrchestrator(r) ==
  /\ sq_req[r].pc = "dispatch"
  /\ LET h == sq_req[r] IN
       sq_req' = [sq_req EXCEPT ![r] =
                    IF sq_workflow # "ready" THEN Responded(h, 200, "mock")
                    ELSE [h EXCEPT !.pc = "running", !.invoked = TRUE,
                                   !.user_saved_at_invoke =
                                     h.user_message # None]]
  /\ UNCHANGED <<sq_store, sq_workflow>>
  /\ UNCHANGED NotConcurrent

\* search_post after run(...) returned or raised: the assistant message is
\* written when the result has answer text, then the response is built; a
\* raise, or a result SearchResponse rejects, ends in the mock response.
OrchestratorReturns(r) ==
  /\ sq_req[r].pc = "running"
  /\ \E outcome \in RunOutcomes, fault \in BOOLEAN :
       LET h == [sq_req[r] EXCEPT !.outcome = outcome] IN
         IF outcome = "raises"
         THEN /\ sq_req' = [sq_req EXCEPT ![r] = Responded(h, 200, "mock")]
              /\ UNCHANGED sq_store
         ELSE
           LET saves == /\ HasAnswerText(outcome)
                        /\ InsertSucceeds(sq_store, h.db, fault, h.session_id)
               written == IF saves
                          THEN [h EXCEPT !.assistant_message =
                                           NextMessageId(sq_store)]
                          ELSE h IN
             /\ sq_store' = IF saves
                            THEN add_message(sq_store, h.session_id, "assistant",
                                             AnswerOf(r), 1)
                            ELSE sq_store
             /\ sq_req' = [sq_req EXCEPT ![r] =
                             Responded(written, 200,
                                       IF outcome = "malformed" THEN "mock"
                                       ELSE "enhanced_hybrid_workflow")]
  /\ UNCHANGED sq_workflow
  /\ UNCHANGED NotConcurrent

ConcurrentNext ==
  \E r \in HandlerIds :
    \/ EnsureChatSession(r)
    \/ PersistUserMessage(r)
    \/ InvokeOrchestrator(r)
    \/ OrchestratorReturns(r)

(***************************************************************************)
(* Workflow claims                                                         *)
(***************************************************************************)

\* The fields _format_result and _create_error_response put in a result.
ResultFields ==
  { "query", "search_results", "answer", "method", "num_results",
    "content_analysis", "similarity_analysis", "validation_results",
    "step_times", "total_processing_time", "input_tokens", "output_tokens",
    "total_tokens", "cost_estimate", "workflow_messages", "quality_score",
    "error", "workflow_type" }

IsPrefix(a, b) == Len(a) <= Len(b) /\ \A i \in 1..Len(a) : a[i] = b[i]

InSeq(x, seq) == \E i \in 1..Len(seq) : seq[i] = x

\* The stages orchestrator o has attempted, in order, under any executor.
Stages(o) == [i \in 1..Len(attempted[o]) |-> attempted[o][i][2]]

\* The stages orchestrator o has attempted in the manual executor.
FallbackStages(o) ==
  LET fb == SelectSeq(attempted[o], LAMBDA e : e[1] = "fallback")
  IN [i \in 1..Len(fb) |-> fb[i][2]]

\* How often orchestrator o has called answer_synthesizer.
SynthRuns(o) ==
  Len(SelectSeq(attempted[o], LAMBDA e : e[2] = "answer_synthesizer"))

LowVerdict(v) == v.retry_recommended /\ v.quality_score < 30

\* C1 (as claimed): retry_count is always 0 or 1, and a request whose
\* validation recommends retry with a score below 0.3 over a context longer
\* than 50 characters has answer_synthesizer re-run exactly once, the
\* decision after the re-run being "accept" whatever the new verdict is.
C1_RetryExactlyOnce ==
  \A o \in Orchestrators :
    /\ state[o].retry_count \in {0, 1}
    /\ ( /\ pc[o] = "done"
         /\ raising = {}
         /\ hits > 0
         /\ context_len > 50
         /\ LowVerdict(verdicts["first"]) )
       => /\ SynthRuns(o) = 2
          /\ state[o].retry_count = 1
          /\ decisions[o] = <<"retry", "accept">>

\* C4: in the manual sequential executor the six stages are attempted in the
\* fixed order whatever subset of them raises; every failed stage has a
\* step_times entry and a failure message; a failed retriever leaves no
\* search results and a failed answer_synthesizer the fixed payload with zero
\* token counts; the result of the run holds every documented field.
C4_FallbackCompletes ==
  \A o \in Orchestrators :
    executor[o] = "fallback" =>
      LET done == FallbackStages(o) IN
      /\ IsPrefix(done, NodeOrder)
      /\ pc[o] \in NodeNames \cup {"done"}
      /\ pc[o] \in NodeNames => pc[o] = NodeOrder[Len(done) + 1]
      /\ \A i \in 1..Len(done) :
            done[i] \in raising =>
              /\ done[i] \in state[o].step_times
              /\ InSeq(done[i] \o " failed", state[o].messages)
      /\ pc[o] = "done" =>
            /\ done = NodeOrder
            /\ DOMAIN result[o] = ResultFields
            /\ result[o].step_times = state[o].step_times
            /\ result[o].workflow_messages = state[o].messages
            /\ "retriever" \in raising =>
                  result[o].search_results = 0 /\ result[o].num_results = 0
            /\ "answer_synthesizer" \in raising =>
                  /\ result[o].answer = UnableAnswer.answer
                  /\ result[o].input_tokens = 0
                  /\ result[o].output_tokens = 0
                  /\ result[o].total_tokens = 0

\* C4 witness: a manual run is finished in which the retriever and the
\* answer synthesizer (and more) raised after writing to the state.
C4_Witness ==
  \E o \in Orchestrators :
    /\ pc[o] = "done"
    /\ executor[o] = "fallback"
    /\ late
    /\ hits > 0
    /\ {"retriever", "answer_synthesizer", "quality_validator"} \subseteq raising

\* C9 (as claimed): the graph executor and the manual executor, given the
\* same request and node behaviours, run the same sequence of stages and end
\* with the same retry_count and the same result apart from workflow_type.
C9_ExecutorsEquivalent ==
  (pc["with_app"] = "done" /\ pc["without_app"] = "done") =>
    /\ Stages("with_app") = Stages("without_app")
    /\ state["with_app"].retry_count = state["without_app"].retry_count
    /\ Without(result["with_app"], "workflow_type")
         = Without(result["without_app"], "workflow_type")

\* The stages orchestrator o has run so far, in order.
StagesRun(o) == [i \in 1..Len(attempted[o]) |-> attempted[o][i][2]]

\* C16: when the retriever finds no hit (and no stage raises), error becomes
\* 'No search results found' and the run goes on: the six stages run once
\* each in order, the answer is the fixed "couldn't find any relevant
\* information" text with token counters and cost at zero, and the result
\* keeps the error.
C16_ZeroHitsNotFatal ==
  \A o \in Orchestrators :
    (hits = 0 /\ raising = {}) =>
      /\ (pc[o] \in NodeNames \ {"coordinator", "retriever"} \/ pc[o] = "route") =>
           state[o].error = "No search results found"
      /\ pc[o] = "done" =>
           /\ StagesRun(o) = NodeOrder
           /\ result[o].answer = "I couldn't find any relevant information"
           /\ result[o].input_tokens = 0
           /\ result[o].output_tokens = 0
           /\ result[o].total_tokens = 0
           /\ result[o].cost_estimate = 0
           /\ result[o].error = "No search results found"
           /\ result[o].num_results = 0

\* Both executors have finished a zero-hit run.
C16_Witness ==
  /\ hits = 0
  /\ raising = {}
  /\ \A o \in Orchestrators :
       /\ pc[o] = "done"
       /\ result[o].error = "No search results found"
  /\ executor["with_app"] = "langgraph"
  /\ executor["without_app"] = "fallback"

(***************************************************************************)
(* Identity and session claims                                             *)
(***************************************************************************)

\* C2 (as claimed): once logout_user has completed for a token, and the
\* token has neither a cache entry nor a durable row while its signature and
\* expiry are still good, resolving the current user with it yields no user:
\* the protected route answers 401.
C2_LoggedOutTokenRejected ==
  \A c \in Clients :
    ( /\ resp[c].op = "me"
      /\ resp[c].seen.after_logout
      /\ ~resp[c].seen.cached
      /\ ~resp[c].seen.stored
      /\ resp[c].seen.valid )
    => resp[c].status = 401

\* C5 (as claimed): every login with correct credentials of an active user
\* succeeds; no two durable session rows share a token; when no login or
\* logout is in flight every live cache entry has a durable row.
C5_EveryLoginSucceeds ==
  /\ \A c \in Clients :
       ( /\ resp[c].op = "login"
         /\ resp[c].detail \notin {"Incorrect username or password", "Inactive user"} )
       => resp[c].status = 200
  /\ \A r1, r2 \in user_sessions :
       r1.session_token = r2.session_token => r1 = r2
  /\ (\A c \in Clients : req[c].op = "none") =>
       \A t \in DOMAIN redis :
         RedisLive(redis, t, now) => \E r \in user_sessions : r.session_token = t

\* C10: no two user rows share a username or an email, and a register
\* request whose username is taken when it is answered (at the existence
\* check or, after a race past it, at the insert) gets 400 and adds no row.
C10_UsernamesUnique ==
  /\ \A u1, u2 \in users :
       (u1.username = u2.username \/ u1.email = u2.email) => u1 = u2
  /\ \A c \in Clients :
       (resp[c].op = "register" /\ resp[c].taken) =>
         resp[c].status = 400 /\ resp[c].added = 0

\* C10 witness: a registration passed the existence check, lost the race to
\* another registration of the same username, and was answered at the insert.
C10_Witness ==
  \E c \in Clients :
    /\ resp[c].op = "register"
    /\ resp[c].taken
    /\ resp[c].detail = "Registration failed"
    /\ \E u \in users : u.username = resp[c].username

(***************************************************************************)
(* Chat and search claims                                                  *)
(***************************************************************************)

\* What the listed session's add_message calls had logged when list_messages
\* was called: role and content of the first k of them.
LoggedAtListing(k) ==
  LET log == SessionLog(message_log, listing.chat_session_id)
  IN [i \in 1..k |-> [role |-> log[i].role, content |-> log[i].content]]

\* C6 (as claimed): list_messages returns exactly the N messages added to the
\* session, in the order they were added, role and content unchanged, and no
\* message of another session.
C6_ListReturnsAll ==
  listing.op = "list_messages" =>
    /\ RoleContent(listing.rows) = LoggedAtListing(listing.n)
    /\ \A i \in 1..Len(listing.rows) :
         listing.rows[i].chat_session_id = listing.chat_session_id

\* C6 (amended): list_messages returns the first min(N, limit) of the N
\* messages added to the session, in the order they were added, role and
\* content unchanged, and no message of another session.
C6_ListReturnsFirstLimit ==
  listing.op = "list_messages" =>
    /\ RoleContent(listing.rows)
         = LoggedAtListing(IF listing.n < listing.limit THEN listing.n ELSE listing.limit)
    /\ \A i \in 1..Len(listing.rows) :
         listing.rows[i].chat_session_id = listing.chat_session_id

\* C6 witness: a session with more messages than the limit was listed while
\* its first two messages differed.
C6_Witness ==
  /\ listing.op = "list_messages"
  /\ listing.n > listing.limit
  /\ Len(listing.rows) = listing.limit
  /\ listing.rows[1].content # listing.rows[2].content

\* The chat session id search_post resolves for the last request.
ResolvedSessionId ==
  IF last_search.request.chat_session_id = None
  THEN last_search.before.sseq + 1
  ELSE last_search.request.chat_session_id

\* str(e) of the exception of a run outcome.
ErrorText(outcome) ==
  IF outcome = "raises" THEN "orchestrator error" ELSE "validation error"

\* C3: for POST /search with an orchestrator present, an exception of the
\* orchestrator run or of building the response from its result gives a 200
\* mock response with method "mock", the resolved chat_session_id and the
\* error text in workflow_messages; never a 500.
C3_OrchestratorErrorsBecomeMock ==
  ( /\ last_search.route = "POST"
    /\ workflow_instance = "ready"
    /\ last_search.outcome \in {"raises", "malformed"} )
  => LET r == last_search.out.response
     IN /\ r.status = 200
        /\ r.body.method = "mock"
        /\ r.body.chat_session_id = ResolvedSessionId
        /\ r.body.workflow_messages
             = <<(<<"Workflow error", ErrorText(last_search.outcome)>>)>>

\* C3 witness: the orchestrator raised in a POST that named an existing chat
\* session.
C3_Witness ==
  /\ last_search.route = "POST"
  /\ workflow_instance = "ready"
  /\ last_search.outcome = "raises"
  /\ last_search.out.invoked
  /\ \E cs \in last_search.before.sessions :
       cs.id = last_search.request.chat_session_id

\* C7: in POST /search a failed write of the user's message does not stop the
\* orchestrator from being invoked, and a failed write of the assistant's
\* message does not stop the orchestrator's full result from being returned.
C7_PersistenceFailuresSwallowed ==
  ( /\ last_search.route = "POST"
    /\ workflow_instance = "ready" )
  => /\ ~last_search.out.user_saved => last_search.out.invoked
     /\ ( /\ last_search.outcome = "ok"
          /\ ~last_search.out.assistant_saved )
        => last_search.out.response
             = SearchResponse(RunResult(last_search.request, "ok"), ResolvedSessionId)

\* C7 witness: both writes of a POST failed and the run returned an answer.
C7_Witness ==
  /\ last_search.route = "POST"
  /\ workflow_instance = "ready"
  /\ last_search.faults.user_write
  /\ last_search.faults.assistant_write
  /\ last_search.outcome = "ok"
  /\ ~last_search.out.user_saved
  /\ ~last_search.out.assistant_saved

\* C8 (as claimed): GET /search gives the response and the chat-session and
\* chat-message effects that POST /search gives for the same user, fields,
\* database and orchestrator behaviour.
C8_GetEquivalentToPost ==
  last_search.route = "GET" =>
    last_search.out
      = search_post(last_search.before, "session", last_search.request,
                    last_search.current_user, last_search.faults,
                    last_search.outcome)

(***************************************************************************)
(* Context processor claims                                                *)
(***************************************************************************)

\* C11 (as claimed): the token count of the context string the fallback
\* context processor emits never exceeds max_context_tokens, prefixes and a
\* truncated last passage included; with budget 50 and three passages of 20
\* tokens exactly the first two sources are emitted in full.
C11_FallbackWithinBudget ==
  fallback_ret.called =>
    /\ count_tokens(fallback_ret.ret.context) <= cp_env.max_context_tokens
    /\ ( /\ cp_env.max_context_tokens = 50
         /\ Len(fallback_ret.search_results) = 3
         /\ \A i \in 1..3 : count_tokens(fallback_ret.search_results[i].passage_text) = 20 )
       => /\ fallback_ret.ret.metadata.num_sources = 2
          /\ fallback_ret.ret.context
               = Str(2 * (SourcePrefixChars + 80) + JoinChars)

\* C17 (as claimed): after the context processor ran on a non-empty result
\* set, on every path, processed_context is a text and context_metadata holds
\* total_tokens, num_sources and optimization_score.
C17_ContextIsTextWithMetadata ==
  (cp_pc = "done" /\ cp_state.search_results # <<>>) =>
    /\ cp_state.processed_context.type = "str"
    /\ {"total_tokens", "num_sources", "optimization_score"}
         \subseteq DOMAIN cp_state.context_metadata

(***************************************************************************)
(* Retriever claims                                                        *)
(***************************************************************************)

\* Where a document stands in a result list, 0 when it is not there.
RankIn(results, doc_id) ==
  IF \E i \in DOMAIN results : results[i].id = doc_id
  THEN CHOOSE i \in DOMAIN results : results[i].id = doc_id
  ELSE 0

IdsOf(results) == {results[i].id : i \in DOMAIN results}

\* 0.7*(0.7*norm_vector + 0.3*norm_bm25)
\*   + 0.3*(0.7/(60+rank_vector) + 0.3/(60+rank_bm25))
\* over one denominator; a side the document is missing from has score 0 and
\* rank list length + 1, and a list whose maximum is 0 normalises to 0.
FusedScore(vector_results, bm25_results, doc_id) ==
  LET iv == RankIn(vector_results, doc_id)
      ib == RankIn(bm25_results, doc_id)
      sv == IF iv = 0 THEN 0 ELSE vector_results[iv].score
      sb == IF ib = 0 THEN 0 ELSE bm25_results[ib].score
      rv == 60 + (IF iv = 0 THEN Len(vector_results) + 1 ELSE iv)
      rb == 60 + (IF ib = 0 THEN Len(bm25_results) + 1 ELSE ib)
      mv == IF MaxScore(vector_results) = 0 THEN 1 ELSE MaxScore(vector_results)
      mb == IF MaxScore(bm25_results) = 0 THEN 1 ELSE MaxScore(bm25_results) IN
    Frac(49 * sv * mb * rv * rb + 21 * sb * mv * rv * rb
           + 21 * mv * mb * rb + 9 * mv * mb * rv,
         100 * mv * mb * rv * rb)

ExampleVector == <<ScoredHit("A", 9), ScoredHit("B", 5)>>
ExampleBM25 == <<ScoredHit("B", 10), ScoredHit("A", 2)>>

\* C12: for non-empty vector and BM25 lists the rerank returns every document
\* of either list exactly once, each with the fused score of the formula
\* (missing side: score 0, rank list length + 1), highest score first; for
\* vector [(A,0.9),(B,0.5)] and BM25 [(B,10),(A,2)] A comes before B; and
\* multi_stage_search returns at most the number of results asked for.
C12_RerankFusesAndOrders ==
  LET v == rr_in.vector_results
      b == rr_in.bm25_results
      out == rr_out.results IN
    (Len(v) > 0 /\ Len(b) > 0) =>
      /\ rr_out.op = "rerank" =>
           /\ IdsOf(out) = IdsOf(v) \cup IdsOf(b)
           /\ Len(out) = Cardinality(IdsOf(v) \cup IdsOf(b))
           /\ \A i \in DOMAIN out : out[i].score = FusedScore(v, b, out[i].id)
           /\ \A i, j \in DOMAIN out : i < j => ~FLess(out[i].score, out[j].score)
           /\ (v = ExampleVector /\ b = ExampleBM25) =>
                RankIn(out, "A") < RankIn(out, "B")
      /\ (rr_out.op = "multi_stage" /\ rr_in.final_size # None) =>
           Len(out) <= rr_in.final_size

\* A rerank of two two-hit lists that share one document, so that one
\* document is missing from each side.
C12_Witness ==
  /\ rr_out.op = "rerank"
  /\ Len(rr_in.vector_results) = 2
  /\ Len(rr_in.bm25_results) = 2
  /\ Len(rr_out.results) = 3
  /\ FLess(rr_out.results[3].score, rr_out.results[1].score)

(***************************************************************************)
(* Coordinator claims                                                      *)
(***************************************************************************)

\* C13: the coordinator replaces search_method only when it came in as
\* "auto" -- by bm25 for at most 3 words with a digit, vector for more than
\* 10 words, multi_stage otherwise -- leaves every other value as it was, and
\* never changes query, index_name or num_results.
C13_OnlyAutoIsResolved ==
  co_pc = "done" =>
    /\ co_in.search_method = "auto" =>
         co_state.search_method =
           (IF co_in.query.words <= 3 /\ co_in.query.has_digit THEN "bm25"
            ELSE IF co_in.query.words > 10 THEN "vector"
            ELSE "multi_stage")
    /\ co_in.search_method # "auto" =>
         co_state.search_method = co_in.search_method
    /\ co_state.query = co_in.query
    /\ co_state.index_name = co_in.index_name
    /\ co_state.num_results = co_in.num_results

\* An "auto" request of exactly three words with a digit, resolved to bm25.
C13_Witness ==
  /\ co_pc = "done"
  /\ co_in.search_method = "auto"
  /\ co_in.query = Query(3, TRUE)
  /\ co_state.search_method = "bm25"

(***************************************************************************)
(* Quality validator claims                                                *)
(***************************************************************************)

\* The answer the validator was handed is missing, None, or under 10
\* characters long.
ShortAnswerIn ==
  \/ qv_in.answer_data.type = "missing"
  \/ ~qv_in.answer_data.has_answer
  \/ qv_in.answer_data.answer.type = "None"
  \/ qv_in.answer_data.answer.chars < 10

\* C14: for an answer shorter than 10 characters (empty and missing
\* included) the validator sets quality_score 0.0, validation_passed false,
\* retry_recommended true, and computes no factor.
C14_ShortAnswerRejected ==
  (qv_pc = "done" /\ ShortAnswerIn) =>
    /\ qv_state.quality_score = ZeroScore
    /\ qv_state.validation_results.quality_score = ZeroScore
    /\ qv_state.validation_results.validation_passed = FALSE
    /\ qv_state.validation_results.retry_recommended = TRUE
    /\ DOMAIN qv_state.validation_results =
         {"quality_score", "issues", "validation_passed", "retry_recommended"}

\* A nine-character answer that cites a source and holds every query word.
C14_Witness ==
  /\ qv_pc = "done"
  /\ qv_in.answer_data.type = "dict"
  /\ qv_in.answer_data.has_answer
  /\ qv_in.answer_data.answer.type = "str"
  /\ qv_in.answer_data.answer.chars = 9
  /\ 1 \in qv_in.answer_data.answer.refs
  /\ qv_in.query_words # {}
  /\ qv_in.query_words \subseteq qv_in.answer_data.answer.words
  /\ ~qv_state.validation_results.validation_passed

\* The answer handed in has 150 characters, contains "[1]" and more than
\* half of the query's distinct words.
GoodAnswerIn ==
  /\ qv_in.answer_data.type = "dict"
  /\ qv_in.answer_data.has_answer
  /\ qv_in.answer_data.answer.type = "str"
  /\ qv_in.answer_data.answer.chars = 150
  /\ 1 \in qv_in.answer_data.answer.refs
  /\ 2 * Cardinality(qv_in.query_words \cap qv_in.answer_data.answer.words)
       > Cardinality(qv_in.query_words)

\* C15: under the default thresholds 0.7 and 0.5, a 150-character answer
\* containing "[1]" and more than half of the query's distinct words passes
\* validation whatever content analysis the state holds.
C15_GoodAnswerPasses ==
  (qv_pc = "done" /\ GoodAnswerIn) =>
    qv_state.validation_results.validation_passed = TRUE

\* Such an answer validated with no content analysis at all.
C15_Witness ==
  /\ qv_pc = "done"
  /\ GoodAnswerIn
  /\ qv_in.content_analysis.empty
  /\ qv_state.validation_results.validation_passed
  /\ qv_state.validation_results.quality_factors = <<90, 90, 90, 60>>

(***************************************************************************)
(* Startup claims                                                          *)
(***************************************************************************)

\* C18: a failure to load the embedding model while the search engine is
\* constructed aborts startup: a process in which that load failed never
\* comes to serve requests.
C18_EmbeddingFailureAbortsStartup ==
  boot.engine_error = "embedding model load" => boot_pc # "serving"

(***************************************************************************)
(* Evaluation harness claims                                               *)
(***************************************************************************)

DocsOf(pairs) == [i \in DOMAIN pairs |-> pairs[i][1]]

PositionIn(docs, d) ==
  IF \E i \in DOMAIN docs : docs[i] = d
  THEN CHOOSE i \in DOMAIN docs : docs[i] = d
  ELSE 0

\* The returned documents stand in the order of one searcher's ranking:
\* two returned documents the searcher ranked keep their relative order, and
\* a document the searcher did not rank among its candidates does not come
\* before one it did.
FollowsRanking(returned, ranking) ==
  \A i, j \in DOMAIN returned :
    i < j =>
      LET ri == PositionIn(ranking, returned[i])
          rj == PositionIn(ranking, returned[j]) IN
        \/ rj = 0
        \/ ri # 0 /\ ri < rj

\* C19: with alpha = 1.0 HybridSearcher.search returns the documents in the
\* order of the dense searcher's ranking, and with alpha = 0.0 in the order
\* of the sparse searcher's ranking, whatever the scores (negative dense
\* scores, zero sparse scores) and for documents in only one list too.
C19_AlphaExtremesFollowOneRanking ==
  hs_out.done =>
    /\ hs_in.alpha = 10 =>
         FollowsRanking(DocsOf(hs_out.results), DocsOf(hs_out.dense_results))
    /\ hs_in.alpha = 0 =>
         FollowsRanking(DocsOf(hs_out.results), DocsOf(hs_out.sparse_results))

\* The qrels queries that have a result list.
Evaluated == DOMAIN met_in.qrels \cap DOMAIN met_in.results

\* The ranks, within the cutoff, at which results[q] lists a judged document.
HitRanks(q) ==
  {i \in DOMAIN met_in.results[q] :
     /\ met_in.cutoff # None => i <= met_in.cutoff
     /\ met_in.results[q][i] \in met_in.qrels[q]}

\* 1/rank of the first judged document of q within the cutoff, 0 when none.
ReciprocalRank(q) ==
  IF HitRanks(q) = {} THEN Frac(0, 1)
  ELSE Frac(1, CHOOSE i \in HitRanks(q) : \A j \in HitRanks(q) : i <= j)

RECURSIVE SumReciprocalRanks(_)
SumReciprocalRanks(qs) ==
  IF qs = {} THEN Frac(0, 1)
  ELSE LET q == CHOOSE x \in qs : TRUE IN
         FAdd(ReciprocalRank(q), SumReciprocalRanks(qs \ {q}))

\* C20: compute_mrr is the sum of the reciprocal ranks over the qrels
\* queries that have a result list, divided by the number of those queries;
\* compute_mrr and compute_recall are 0.0 when no qrels query has results;
\* for qrels {q1: {d1}} and results {q1: [d3, d1, d2]} MRR@10 is 1/2.
C20_MrrOverEvaluatedQueries ==
  /\ (met_out.op = "mrr" /\ Evaluated # {}) =>
       met_out.value.num * Cardinality(Evaluated) * SumReciprocalRanks(Evaluated).den
         = SumReciprocalRanks(Evaluated).num * met_out.value.den
  /\ (met_out.op \in {"mrr", "recall"} /\ Evaluated = {}) =>
       met_out.value = Frac(0, 1)
  /\ (/\ met_out.op = "mrr"
      /\ met_in.qrels = [q \in {"q1"} |-> {"d1"}]
      /\ met_in.results = [q \in {"q1"} |-> <<"d3", "d1", "d2">>]
      /\ met_in.cutoff = 10) =>
       met_out.value = Frac(1, 2)

\* An MRR over two judged queries of which only one has a result list, that
\* list holding its judged document at rank 2.
C20_Witness ==
  /\ met_out.op = "mrr"
  /\ DOMAIN met_in.qrels = {"q1", "q2"}
  /\ DOMAIN met_in.results = {"q1"}
  /\ met_in.qrels["q1"] = {"d1"}
  /\ met_in.results["q1"] = <<"d3", "d1", "d2">>
  /\ met_in.cutoff = 10
  /\ met_out.value = Frac(1, 2)

\* The sign of one added term log(idf) * tf: tf is positive.
TermSign(c) ==
  IF c.idf.num > c.idf.den THEN 1 ELSE IF c.idf.num < c.idf.den THEN -1 ELSE 0

\* A score every added term of which is negative or zero is not positive.
SurelyNotPositive(score) ==
  /\ score # << >>
  /\ \A i \in DOMAIN score : TermSign(score[i]) <= 0

HoldsQueryTerm(doc, query) ==
  \E i \in DOMAIN doc, j \in DOMAIN query : doc[i] = query[j]

\* C21: after fit, get_scores returns one score per corpus document, zero
\* for a document holding no query term and positive for a document holding
\* one; for the corpus ["the cat sat", "the cat sat on the mat"] and the
\* query ["cat"], score[0] > score[1] > 0.
C21_ScoresPositiveOnMatches ==
  bm_out.done =>
    /\ Len(bm_out.scores) = Len(bm_in.corpus)
    /\ \A d \in DOMAIN bm_out.scores :
         IF HoldsQueryTerm(bm_in.corpus[d], bm_in.query)
         THEN ~SurelyNotPositive(bm_out.scores[d])
         ELSE bm_out.scores[d] = << >>
    /\ (bm_in.corpus = ExampleCorpus /\ bm_in.query = <<"cat">>) =>
         /\ Len(bm_out.scores[1]) = 1
         /\ Len(bm_out.scores[2]) = 1
         /\ TermSign(bm_out.scores[1][1]) = 1
         /\ bm_out.scores[1][1].idf = bm_out.scores[2][1].idf
         /\ FLess(bm_out.scores[2][1].tf, bm_out.scores[1][1].tf)

(***************************************************************************)
(* Serialization claims                                                    *)
(***************************************************************************)

\* C22: convert_numpy_values is idempotent on nested mappings and lists over
\* floating, integer, boolean and array values: the second application
\* returns what the first returned.
C22_ConvertIdempotent ==
  cv_out.applied = 2 => cv_out.twice = cv_out.once

(***************************************************************************)
(* Request default claims                                                  *)
(***************************************************************************)

\* C23: when a request leaves out search_method and num_results, the
\* pipeline state carries the configured defaults (multi_stage, 5), and the
\* retriever returns at most 5 results.
C23_OmittedFieldsTakeDefaults ==
  (/\ pl_in.search_method = NoMethod
   /\ pl_in.num_results = None
   /\ pl_pc \in {"coordinator", "retriever", "done"})
  => /\ pl_state.search_method = default_search_method
     /\ pl_state.num_results = default_num_results
     /\ Len(pl_state.search_results) <= default_num_results

(***************************************************************************)
(* Migration claims                                                        *)
(***************************************************************************)

\* The initial schema states the claim lists.
EmptyDatabase == mg_in.db = Schema({}, NoRevision)
HandCreated == mg_in.db = Schema({"users", "user_sessions"}, NoRevision)
OneOfTheTwo ==
  \/ mg_in.db = Schema({"users"}, NoRevision)
  \/ mg_in.db = Schema({"user_sessions"}, NoRevision)
AtMigration1 ==
  mg_in.db = Schema({"users", "user_sessions", VersionTable}, Revision0001)
AtHead == mg_in.db = Schema(ModelTables \cup {VersionTable}, Revision0002)

\* C24: with the migration tool working, startup migration from each listed
\* schema state (empty; users and user_sessions without a version table;
\* one of the two without a version table; version at migration 1; version
\* at head) ends with the four tables present and the version at head, and
\* it stamps only when the version table was absent and users and
\* user_sessions were both there.
C24_MigrationReachesHead ==
  (/\ mg_pc = "done"
   /\ mg_in.env.alembic
   /\ ~mg_in.env.stamp_raises
   /\ EmptyDatabase \/ HandCreated \/ OneOfTheTwo \/ AtMigration1 \/ AtHead)
  => /\ ModelTables \subseteq mg_db.tables
     /\ mg_db.version = Revision0002
     /\ mg_log.stamped <=> HandCreated

(***************************************************************************)
(* Workflow type claims                                                    *)
(***************************************************************************)

\* C25: the workflow_type of a result names the executor that produced it:
\* "langgraph" only when the graph executor ran to the end, "fallback" when
\* the manual executor did, also after the graph's invoke raised.
C25_WorkflowTypeNamesExecutor ==
  \A o \in Orchestrators :
    pc[o] = "done" => result[o].workflow_type = executor[o]

(***************************************************************************)
(* Evaluation run claims                                                   *)
(***************************************************************************)

\* C26: when the sparse index is built, tokenized_docs is as long as
\* documents and each entry is the preprocessor's tokens of that document,
\* so the BM25 corpus size equals the number of documents.
C26_OneTokenListPerDocument ==
  er_pc \in {"indexed", "evaluated"} =>
    /\ Len(er.loader.tokenized_docs) = Len(er.loader.documents)
    /\ \A i \in DOMAIN er.loader.documents :
         er.loader.tokenized_docs[i] = preprocess_text(er.loader.documents[i])
    /\ er.corpus_size = Len(er.loader.documents)

\* The load took no path that touches the lists twice.
CleanLoad ==
  \/ er_in.cache = "good"
  \/ er_in.cache \in {"absent", "documents_unreadable"}
       /\ er_in.primary \in {"ok", "raises_at_start"}

\* C27: the ranked list recorded for a query holds ids of the id space of
\* the qrels keys (the collection's doc_ids, not positions): every retrieved
\* document that is relevant appears in the list under its own id.
C27_RankedListHoldsDocIds ==
  (er_pc = "evaluated" /\ CleanLoad) =>
    /\ \A i \in DOMAIN er.results :
         er.results[i] = er.loader.doc_ids[er.retrieved[i] + 1]
    /\ \A i \in DOMAIN er.retrieved :
         er.loader.doc_ids[er.retrieved[i] + 1] \in er.loader.qrels =>
           \E j \in DOMAIN er.results :
             er.results[j] = er.loader.doc_ids[er.retrieved[i] + 1]

\* C29: after load_full_msmarco_data returned, by whichever path,
\* documents and doc_ids have the same length, doc_ids has no duplicates,
\* and doc_id_to_index[doc_ids[i]] = i for every position i.
C29_LoaderListsAligned ==
  er_pc # "start" =>
    /\ Len(er.loader.documents) = Len(er.loader.doc_ids)
    /\ \A i, j \in DOMAIN er.loader.doc_ids :
         i # j => er.loader.doc_ids[i] # er.loader.doc_ids[j]
    /\ \A i \in DOMAIN er.loader.doc_ids :
         er.loader.doc_id_to_index[er.loader.doc_ids[i]] = i - 1

(***************************************************************************)
(* Validator score claims                                                  *)
(***************************************************************************)

\* The conditions of _should_retry_answer that read the validator's output:
\* retry recommended and quality_score < 0.3.
RetryEdgeOpen ==
  /\ qv_state.validation_results.retry_recommended
  /\ ScoreBelow(qv_state.validation_results.quality_score, 30)

StoredMessage(n) == CHOOSE m \in sq_store.messages : m.id = n

\* What holds of every handler, alone or interleaved with the other: a
\* stored user message was committed before the orchestrator was invoked; an
\* assistant message is stored only after the orchestrator returned a
\* non-empty answer; stored messages carry the session id the response
\* returns; the user message has the lower id; and without an orchestrator,
\* or after it raised, no assistant message is stored.
MessagesOrdered(r) ==
  LET h == sq_req[r] IN
    /\ (h.invoked /\ h.user_message # None) => h.user_saved_at_invoke
    /\ h.assistant_message # None =>
         /\ h.invoked
         /\ h.outcome \in {"ok", "malformed"}
    /\ h.user_message # None =>
         /\ \E m \in sq_store.messages : m.id = h.user_message
         /\ StoredMessage(h.user_message).chat_session_id = h.session_id
         /\ StoredMessage(h.user_message).role = "user"
    /\ h.assistant_message # None =>
         /\ \E m \in sq_store.messages : m.id = h.assistant_message
         /\ StoredMessage(h.assistant_message).chat_session_id = h.session_id
         /\ StoredMessage(h.assistant_message).role = "assistant"
    /\ (h.pc = "done" /\ h.status = 200) => h.response_session = h.session_id
    /\ (h.user_message # None /\ h.assistant_message # None) =>
         h.user_message < h.assistant_message
    /\ (h.pc = "done" /\ (sq_workflow # "ready" \/ h.outcome = "raises")) =>
         h.assistant_message = None

\* C30 as stated: for every search request the user message is committed
\* before the orchestrator is invoked, and the rest of MessagesOrdered.
C30_UserMessageAlwaysCommitted ==
  \A r \in HandlerIds :
    /\ sq_req[r].invoked => sq_req[r].user_saved_at_invoke
    /\ MessagesOrdered(r)

\* C30, amended: for every search request, also under concurrent requests
\* on the same chat session, a user message that is stored was committed
\* before the orchestrator was invoked (a failed write is swallowed and
\* stores none); the assistant message is stored only after the orchestrator
\* returned a non-empty answer; both are stored under the chat_session_id
\* the response returns, the user message with the lower id; without an
\* orchestrator, or after it raised, no assistant message is written.
C30_StoredMessagesOrdered ==
  \A r \in HandlerIds : MessagesOrdered(r)

\* Both requests name session 1 and run interleaved: both user messages are
\* committed before either assistant message.
C30_Witness ==
  /\ \A r \in HandlerIds :
       /\ sq_req[r].pc = "done"
       /\ sq_req[r].chat_session_id = 1
       /\ sq_req[r].user_message # None
       /\ sq_req[r].assistant_message # None
  /\ \A r, q \in HandlerIds :
       sq_req[r].user_message < sq_req[q].assistant_message

(***************************************************************************)
(* Specifications                                                          *)
(***************************************************************************)

\* The workflow orchestrators serving one request each.
InitWorkflow ==
  WorkflowInit /\ AuthInit /\ ChatQuiet /\ ContextQuiet /\ RerankQuiet
  /\ CoordinatorQuiet /\ ValidatorQuiet /\ StartupQuiet /\ HybridQuiet
  /\ MetricsQuiet /\ BM25Quiet /\ ConvertQuiet /\ PipelineQuiet
  /\ MigrationQuiet /\ EvalQuiet /\ ConcurrentQuiet
SpecWorkflow == InitWorkflow /\ [][WorkflowNext]_vars

\* POST /auth/register serving concurrent clients.
InitRegister ==
  WorkflowQuiet /\ AuthInit /\ ChatQuiet /\ ContextQuiet /\ RerankQuiet
  /\ CoordinatorQuiet /\ ValidatorQuiet /\ StartupQuiet /\ HybridQuiet
  /\ MetricsQuiet /\ BM25Quiet /\ ConvertQuiet /\ PipelineQuiet
  /\ MigrationQuiet /\ EvalQuiet /\ ConcurrentQuiet
SpecRegister == InitRegister /\ [][RegisterNext]_vars

\* Login, logout and /auth/me serving concurrent clients.
InitSession ==
  WorkflowQuiet /\ SessionInit /\ ChatQuiet /\ ContextQuiet /\ RerankQuiet
  /\ CoordinatorQuiet /\ ValidatorQuiet /\ StartupQuiet /\ HybridQuiet
  /\ MetricsQuiet /\ BM25Quiet /\ ConvertQuiet /\ PipelineQuiet
  /\ MigrationQuiet /\ EvalQuiet /\ ConcurrentQuiet
SpecSession == InitSession /\ [][SessionNext]_vars

\* The chat service called directly.
InitChat ==
  WorkflowQuiet /\ AuthInit /\ ChatQuiet /\ ContextQuiet /\ RerankQuiet
  /\ CoordinatorQuiet /\ ValidatorQuiet /\ StartupQuiet /\ HybridQuiet
  /\ MetricsQuiet /\ BM25Quiet /\ ConvertQuiet /\ PipelineQuiet
  /\ MigrationQuiet /\ EvalQuiet /\ ConcurrentQuiet
SpecChat == InitChat /\ [][ChatNext]_vars

\* The search routes serving authenticated requests.
InitSearch ==
  WorkflowQuiet /\ AuthInit /\ SearchInit /\ ContextQuiet /\ RerankQuiet
  /\ CoordinatorQuiet /\ ValidatorQuiet /\ StartupQuiet /\ HybridQuiet
  /\ MetricsQuiet /\ BM25Quiet /\ ConvertQuiet /\ PipelineQuiet
  /\ MigrationQuiet /\ EvalQuiet /\ ConcurrentQuiet
SpecSearch == InitSearch /\ [][SearchNext]_vars

\* The context processor called on one request.
InitContext ==
  WorkflowQuiet /\ AuthInit /\ ChatQuiet /\ ContextInit /\ RerankQuiet
  /\ CoordinatorQuiet /\ ValidatorQuiet /\ StartupQuiet /\ HybridQuiet
  /\ MetricsQuiet /\ BM25Quiet /\ ConvertQuiet /\ PipelineQuiet
  /\ MigrationQuiet /\ EvalQuiet /\ ConcurrentQuiet
SpecContext == InitContext /\ [][ContextNext]_vars

\* The retriever's multi-stage search on one pair of result lists.
InitRerank ==
  WorkflowQuiet /\ AuthInit /\ ChatQuiet /\ ContextQuiet /\ RerankInit
  /\ CoordinatorQuiet /\ ValidatorQuiet /\ StartupQuiet /\ HybridQuiet
  /\ MetricsQuiet /\ BM25Quiet /\ ConvertQuiet /\ PipelineQuiet
  /\ MigrationQuiet /\ EvalQuiet /\ ConcurrentQuiet
SpecRerank == InitRerank /\ [][RerankNext]_vars

\* The coordinator called on one initial pipeline state.
InitCoordinator ==
  WorkflowQuiet /\ AuthInit /\ ChatQuiet /\ ContextQuiet /\ RerankQuiet
  /\ CoordinatorInit /\ ValidatorQuiet /\ StartupQuiet /\ HybridQuiet
  /\ MetricsQuiet /\ BM25Quiet /\ ConvertQuiet /\ PipelineQuiet
  /\ MigrationQuiet /\ EvalQuiet /\ ConcurrentQuiet
SpecCoordinator == InitCoordinator /\ [][CoordinatorNext]_vars

\* The quality validator called on one pipeline state.
InitValidator ==
  WorkflowQuiet /\ AuthInit /\ ChatQuiet /\ ContextQuiet /\ RerankQuiet
  /\ CoordinatorQuiet /\ ValidatorInit /\ StartupQuiet /\ HybridQuiet
  /\ MetricsQuiet /\ BM25Quiet /\ ConvertQuiet /\ PipelineQuiet
  /\ MigrationQuiet /\ EvalQuiet /\ ConcurrentQuiet
SpecValidator == InitValidator /\ [][ValidatorNext]_vars

\* The server process starting and answering its health probe.
InitStartup ==
  WorkflowQuiet /\ AuthInit /\ ChatQuiet /\ ContextQuiet /\ RerankQuiet
  /\ CoordinatorQuiet /\ ValidatorQuiet /\ StartupInit /\ HybridQuiet
  /\ MetricsQuiet /\ BM25Quiet /\ ConvertQuiet /\ PipelineQuiet
  /\ MigrationQuiet /\ EvalQuiet /\ ConcurrentQuiet
SpecStartup == InitStartup /\ [][StartupNext]_vars

\* The harness's hybrid searcher answering one query.
InitHybrid ==
  WorkflowQuiet /\ AuthInit /\ ChatQuiet /\ ContextQuiet /\ RerankQuiet
  /\ CoordinatorQuiet /\ ValidatorQuiet /\ StartupQuiet /\ HybridInit
  /\ MetricsQuiet /\ BM25Quiet /\ ConvertQuiet /\ PipelineQuiet
  /\ MigrationQuiet /\ EvalQuiet /\ ConcurrentQuiet
SpecHybrid == InitHybrid /\ [][HybridNext]_vars

\* The harness computing one metric.
InitMetrics ==
  WorkflowQuiet /\ AuthInit /\ ChatQuiet /\ ContextQuiet /\ RerankQuiet
  /\ CoordinatorQuiet /\ ValidatorQuiet /\ StartupQuiet /\ HybridQuiet
  /\ MetricsInit /\ BM25Quiet /\ ConvertQuiet /\ PipelineQuiet
  /\ MigrationQuiet /\ EvalQuiet /\ ConcurrentQuiet
SpecMetrics == InitMetrics /\ [][MetricsNext]_vars

\* The harness's BM25 model fitted and queried once.
InitBM25 ==
  WorkflowQuiet /\ AuthInit /\ ChatQuiet /\ ContextQuiet /\ RerankQuiet
  /\ CoordinatorQuiet /\ ValidatorQuiet /\ StartupQuiet /\ HybridQuiet
  /\ MetricsQuiet /\ BM25Init /\ ConvertQuiet /\ PipelineQuiet
  /\ MigrationQuiet /\ EvalQuiet /\ ConcurrentQuiet
SpecBM25 == InitBM25 /\ [][BM25Next]_vars

\* The serialization normalizer applied twice to one value.
InitConvert ==
  WorkflowQuiet /\ AuthInit /\ ChatQuiet /\ ContextQuiet /\ RerankQuiet
  /\ CoordinatorQuiet /\ ValidatorQuiet /\ StartupQuiet /\ HybridQuiet
  /\ MetricsQuiet /\ BM25Quiet /\ ConvertInit /\ PipelineQuiet
  /\ MigrationQuiet /\ EvalQuiet /\ ConcurrentQuiet
SpecConvert == InitConvert /\ [][ConvertNext]_vars

\* One search request from the endpoint to the retriever.
InitPipeline ==
  WorkflowQuiet /\ AuthInit /\ ChatQuiet /\ ContextQuiet /\ RerankQuiet
  /\ CoordinatorQuiet /\ ValidatorQuiet /\ StartupQuiet /\ HybridQuiet
  /\ MetricsQuiet /\ BM25Quiet /\ ConvertQuiet /\ PipelineInit
  /\ MigrationQuiet /\ EvalQuiet /\ ConcurrentQuiet
SpecPipeline == InitPipeline /\ [][PipelineNext]_vars

\* The schema migration run at startup, from each schema it may find.
InitMigration ==
  WorkflowQuiet /\ AuthInit /\ ChatQuiet /\ ContextQuiet /\ RerankQuiet
  /\ CoordinatorQuiet /\ ValidatorQuiet /\ StartupQuiet /\ HybridQuiet
  /\ MetricsQuiet /\ BM25Quiet /\ ConvertQuiet /\ PipelineQuiet
  /\ MigrationInit /\ EvalQuiet /\ ConcurrentQuiet
SpecMigration == InitMigration /\ [][MigrationNext]_vars

\* One run of the evaluation harness: load, index, evaluate.
InitEval ==
  WorkflowQuiet /\ AuthInit /\ ChatQuiet /\ ContextQuiet /\ RerankQuiet
  /\ CoordinatorQuiet /\ ValidatorQuiet /\ StartupQuiet /\ HybridQuiet
  /\ MetricsQuiet /\ BM25Quiet /\ ConvertQuiet /\ PipelineQuiet
  /\ MigrationQuiet /\ EvalInit /\ ConcurrentQuiet
SpecEval == InitEval /\ [][EvalNext]_vars

\* Two search requests served concurrently.
InitConcurrent ==
  WorkflowQuiet /\ AuthInit /\ ChatQuiet /\ ContextQuiet /\ RerankQuiet
  /\ CoordinatorQuiet /\ ValidatorQuiet /\ StartupQuiet /\ HybridQuiet
  /\ MetricsQuiet /\ BM25Quiet /\ ConvertQuiet /\ PipelineQuiet
  /\ MigrationQuiet /\ EvalQuiet /\ ConcurrentInit
SpecConcurrent == InitConcurrent /\ [][ConcurrentNext]_vars

====
